---------------------------- MODULE Spec2Model ----------------------------
(***************************************************************************)
(* Input/output buffers of the network layer (iobuf): struct ibuf, struct  *)
(* obuf, struct iobuf and the per-thread cache of idle iobufs.             *)
(*                                                                         *)
(* Memory is modelled explicitly.  A slab of the slab cache is a chunk     *)
(* with an integer address (chunk id * SlabStride) and a byte array; a     *)
(* region is a bump allocator whose allocations are addressed by their     *)
(* offset in the region.  Pointers of the C code are integers, 0 is NULL.  *)
(* A byte that was never written reads as 0; written bytes are 1 or 2.     *)
(*                                                                         *)
(* Every C function is a pure operator from the structures it touches to   *)
(* the structures after the call together with the way the call ended:     *)
(*   "ok"    returned normally                                             *)
(*   "oom"   raised OutOfMemory (tnt_raise); the caller goes on            *)
(*   "abort" an assert() failed in a build without NDEBUG                  *)
(*   "hang"  a loop that never ends                                        *)
(*   "ub"    undefined behaviour (access outside an allocation)            *)
(* The last three stop the process: no action is enabled afterwards.       *)
(***************************************************************************)
EXTENDS Integers, Sequences, FiniteSets, TLC

(* ---------------------------- bounds ---------------------------------- *)

\* Largest capacity the input buffer of one connection is grown to.
MaxCap == 4
\* Longest byte string one fill / dup / alloc call carries.
MaxChunk == 2
\* Largest size passed to ibuf_reserve / obuf_reserve / obuf_book.
MaxReserve == 3
\* Most bytes the region of one connection's output buffer hands out.
MaxRegion == 5
\* Largest pin count.
MaxPins == 2
\* Largest input capacity and region size in the specification of a unit's life.
MaxPoolChunk == 3
\* Most units of iobuf_pool (connections at a time).
MaxUnits == 3
\* Most calls on an output buffer between two resets, where they are recorded.
MaxCalls == 4
\* Most bytes the region hands out in the scenario with alloc_factor 128
\* (the segments of 128 and 256 bytes).
MaxScenarioRegion == 384
\* A reply large enough to take the region over 18 x readahead, and the
\* memory a region may hold in the lives of a reused unit.
LargeChunk == 17
MaxDup == 4
MaxDupRegion == 7
MaxReuseRegion == 33
\* Distance between the addresses of two slabs (larger than any capacity).
SlabStride == 100
\* Slots of the segment array.  The code has enum { IOBUF_IOV_MAX = 32 };
\* the model keeps every use of the constant and bounds its value, so that
\* a buffer whose segments double in size reaches the last slot within
\* MaxRegion bytes.
IOBUF_IOV_MAX == 3

(* ------------------------ program constants --------------------------- *)

\* iobuf_max_pool_size() is 18 * iobuf_readahead.
POOL_SIZE_FACTOR == 18

\* Values given to iobuf_set_readahead (and the value the process starts with).
ReadaheadValues == {0, 1, 2}
\* Data bytes.
Byte == {1, 2}
\* What the slab cache answers to slab_get: -1 is NULL, k >= 0 is a slab
\* whose capacity exceeds the requested size by k (size classes).
SlabAnswers == {-1, 0, 1}
\* What malloc'ed, never initialised array slots of a new struct iobuf hold.
JunkValues == {0, 3}

(* ----------------------------- state ----------------------------------- *)

VARIABLES
    iobuf_readahead,  \* static int iobuf_readahead
    iobuf_cache,      \* SLIST iobuf_cache: sequence of unit ids, head first
    iobufs,           \* the struct iobuf objects of iobuf_pool, by unit id
    slabs,            \* live slabs of the slab cache, by chunk id
    NDEBUG,           \* the build: TRUE when assert() is compiled out
    halted,           \* "" or the way the process stopped
    svp,              \* the caller's struct obuf_svp (and what it saw)
    reserved,         \* the caller's pointer from the last obuf_reserve
    stream,           \* history: bytes appended to unit 1's obuf since reset
    last,             \* history: the last call and how it ended
    pinned,           \* history: pins a second task holds on unit 1
    held,             \* history: the units callers got from iobuf_new and
                      \* have not passed to iobuf_delete, one entry a caller
    peak,             \* history: the most entries held ever had
    calls             \* history, kept when calls.on: the calls on unit 1's
                      \* obuf that returned since it was last emptied

vars == <<iobuf_readahead, iobuf_cache, iobufs, slabs, NDEBUG, halted,
          svp, reserved, stream, last, pinned, held, peak, calls>>

(* ---------------------------- helpers ---------------------------------- *)

Max(a, b) == IF a >= b THEN a ELSE b

Min(a, b) == IF a <= b THEN a ELSE b

Zeros(n) == [i \in 1..n |-> 0]

\* Sequences over S of length 0..n.
SeqUpTo(S, n) == UNION {[1..k -> S] : k \in 0..n}

\* seq with bytes written over it from 0-based offset off.
Overwrite(seq, off, bytes) ==
    [i \in 1..Len(seq) |->
        IF i > off /\ i <= off + Len(bytes) THEN bytes[i - off] ELSE seq[i]]

\* seq without its first entry equal to x.
Without(seq, x) ==
    IF \E i \in 1..Len(seq) : seq[i] = x
    THEN LET k == CHOOSE i \in 1..Len(seq) :
                    seq[i] = x /\ \A m \in 1..(i - 1) : seq[m] # x
         IN [i \in 1..(Len(seq) - 1) |-> IF i < k THEN seq[i] ELSE seq[i + 1]]
    ELSE seq

\* while (capacity < need) capacity *= 2;  never ends when capacity is 0.
DoublingDiverges(c, need) == c = 0 /\ need > 0

RECURSIVE DoubleUntil(_, _)
DoubleUntil(c, need) ==
    IF c >= need \/ c = 0 THEN c ELSE DoubleUntil(c * 2, need)

\* History of the last call: what was called on which unit with which size,
\* how it ended, on which path, and (for the calls whose effect is compared
\* with the state before) what the structures held before the call.
NoPre == [kind |-> "none"]

NoLast ==
    [op |-> "init", status |-> "ok", path |-> "", unit |-> 0, n |-> 0,
     pre |-> NoPre]

Call(op, status, path, u, n, pre) ==
    [op |-> op, status |-> status, path |-> path, unit |-> u, n |-> n,
     pre |-> pre]

\* How a call that ended with status st leaves the process.
HaltOf(st) == IF st \in {"abort", "hang", "ub"} THEN st ELSE ""

(* --------------------------- slab cache -------------------------------- *)

slab_data(c) == c * SlabStride

slab_from_data(ptr) == ptr \div SlabStride

\* The chunk slab_get hands out: any chunk not in use; chunks are
\* interchangeable, the model takes the lowest free id.
FreshSlab(sl) == CHOOSE c \in 1..(Cardinality(DOMAIN sl) + 1) : c \notin DOMAIN sl

slab_get(sl, size, answer) ==
    IF answer < 0
    THEN [slab |-> 0, slabs |-> sl]
    ELSE LET c == FreshSlab(sl)
         IN [slab |-> c,
             slabs |-> sl @@ (c :> [capacity |-> size + answer,
                                    data |-> Zeros(size + answer)])]

slab_put(sl, c) == [x \in DOMAIN sl \ {c} |-> sl[x]]

\* Whether [addr, addr+len) lies inside one live slab.
MemValid(sl, addr, len) ==
    \/ len = 0
    \/ /\ slab_from_data(addr) \in DOMAIN sl
       /\ (addr % SlabStride) + len <= sl[slab_from_data(addr)].capacity

MemRead(sl, addr, len) ==
    IF len = 0 THEN <<>>
    ELSE LET o == addr % SlabStride
         IN SubSeq(sl[slab_from_data(addr)].data, o + 1, o + len)

MemWrite(sl, addr, bytes) ==
    IF bytes = <<>> THEN sl
    ELSE LET c == slab_from_data(addr)
         IN [sl EXCEPT ![c].data = Overwrite(@, addr % SlabStride, bytes)]

(* --------------------------- struct ibuf ------------------------------- *)

ibuf_create == [buf |-> 0, pos |-> 0, end |-> 0, capacity |-> 0]

ibuf_size(ib) == ib.end - ib.pos

ibuf_unused(ib) == ib.buf + ib.capacity - ib.end

ibuf_capacity(ib) == ib.capacity

ibuf_pos(ib) == ib.pos - ib.buf

\* The unconsumed input [pos, end).
ibuf_bytes(ib, sl) == MemRead(sl, ib.pos, ibuf_size(ib))

\* ibuf_destroy without slab_put.
ibuf_destroy_no_put(ib, sl) == sl

ibuf_destroy(ib, sl) ==
    IF ib.buf # 0 THEN slab_put(sl, slab_from_data(ib.buf)) ELSE sl

ibuf_reset(ib) == [ib EXCEPT !.pos = ib.buf, !.end = ib.buf]

IbufRet(ib, sl, status, path) ==
    [in |-> ib, slabs |-> sl, status |-> status, path |-> path]

\* ibuf_defragment without the memmove: only the pointers move.
ibuf_defragment_no_memmove(ib, sl) ==
    IbufRet([ib EXCEPT !.pos = ib.buf, !.end = ib.buf + ibuf_size(ib)],
            sl, "ok", "defrag")

\* memmove(ibuf->buf, ibuf->pos, current_size), then the common tail.
ibuf_defragment(ib, sl) ==
    LET current_size == ibuf_size(ib)
        moved == MemWrite(sl, ib.buf, MemRead(sl, ib.pos, current_size))
    IN IbufRet([ib EXCEPT !.pos = ib.buf, !.end = ib.buf + current_size],
               moved, "ok", "defrag")

\* ibuf_realloc without the loop that doubles new_capacity.
ibuf_realloc_no_doubling(ib, sl, size, readahead, answer) ==
    LET current_size == ibuf_size(ib)
        new_capacity == Max(ib.capacity * 2, readahead)
        got == slab_get(sl, new_capacity, answer)
        ptr == slab_data(got.slab)
        copied == MemWrite(got.slabs, ptr,
                           SubSeq(MemRead(sl, ib.pos, current_size), 1,
                                  Min(current_size, new_capacity + Max(answer, 0))))
        put == IF ib.buf # 0 THEN slab_put(copied, slab_from_data(ib.buf))
               ELSE copied
    IN IF got.slab = 0
       THEN IbufRet(ib, sl, "oom", "realloc")
       ELSE IbufRet([buf |-> ptr, pos |-> ptr, end |-> ptr + current_size,
                     capacity |-> got.slabs[got.slab].capacity],
                    put, "ok", "realloc")

\* ibuf_realloc that installs the new slab and leaves pos and end in the
\* old one.
ibuf_realloc_stale_pos(ib, sl, size, readahead, answer) ==
    LET current_size == ibuf_size(ib)
        start == Max(ib.capacity * 2, readahead)
        new_capacity == DoubleUntil(start, current_size + size)
        got == slab_get(sl, new_capacity, answer)
        ptr == slab_data(got.slab)
        copied == MemWrite(got.slabs, ptr, MemRead(sl, ib.pos, current_size))
    IN IF DoublingDiverges(start, current_size + size)
       THEN IbufRet(ib, sl, "hang", "realloc")
       ELSE IF got.slab = 0
       THEN IbufRet(ib, sl, "oom", "realloc")
       ELSE IbufRet([ib EXCEPT !.buf = ptr,
                               !.capacity = got.slabs[got.slab].capacity],
                    copied, "ok", "realloc")

\* ibuf_realloc that releases the old slab before it asks for the new one.
ibuf_realloc_put_first(ib, sl, size, readahead, answer) ==
    LET current_size == ibuf_size(ib)
        start == Max(ib.capacity * 2, readahead)
        new_capacity == DoubleUntil(start, current_size + size)
        bytes == MemRead(sl, ib.pos, current_size)
        put == IF ib.buf # 0 THEN slab_put(sl, slab_from_data(ib.buf)) ELSE sl
        got == slab_get(put, new_capacity, answer)
        ptr == slab_data(got.slab)
    IN IF DoublingDiverges(start, current_size + size)
       THEN IbufRet(ib, sl, "hang", "realloc")
       ELSE IF got.slab = 0
       THEN IbufRet(ib, put, "oom", "realloc")
       ELSE IbufRet([buf |-> ptr, pos |-> ptr, end |-> ptr + current_size,
                     capacity |-> got.slabs[got.slab].capacity],
                    MemWrite(got.slabs, ptr, bytes), "ok", "realloc")

\* The else branch of ibuf_reserve: get a bigger slab and move into it.
\* ibuf_realloc that asks for just the bytes needed, with no geometric
\* growth.
ibuf_realloc_exact_fit(ib, sl, size, readahead, answer) ==
    LET current_size == ibuf_size(ib)
        new_capacity == current_size + size
        got == slab_get(sl, new_capacity, answer)
        ptr == slab_data(got.slab)
        copied == MemWrite(got.slabs, ptr, MemRead(sl, ib.pos, current_size))
        put == IF ib.buf # 0 THEN slab_put(copied, slab_from_data(ib.buf))
               ELSE copied
    IN IF got.slab = 0
       THEN IbufRet(ib, sl, "oom", "realloc")
       ELSE IbufRet([buf |-> ptr, pos |-> ptr, end |-> ptr + current_size,
                     capacity |-> got.slabs[got.slab].capacity],
                    put, "ok", "realloc")

ibuf_realloc(ib, sl, size, readahead, answer) ==
    LET current_size == ibuf_size(ib)
        start == Max(ib.capacity * 2, readahead)
        new_capacity == DoubleUntil(start, current_size + size)
        got == slab_get(sl, new_capacity, answer)
        ptr == slab_data(got.slab)
        copied == MemWrite(got.slabs, ptr, MemRead(sl, ib.pos, current_size))
        put == IF ib.buf # 0 THEN slab_put(copied, slab_from_data(ib.buf))
               ELSE copied
    IN IF DoublingDiverges(start, current_size + size)
       THEN IbufRet(ib, sl, "hang", "realloc")
       ELSE IF got.slab = 0
       THEN IbufRet(ib, sl, "oom", "realloc")
       ELSE IbufRet([buf |-> ptr, pos |-> ptr, end |-> ptr + current_size,
                     capacity |-> got.slabs[got.slab].capacity],
                    put, "ok", "realloc")

\* ibuf_reserve without the branch that defragments in place.
ibuf_reserve_no_defragment(ib, sl, size, readahead, answer) ==
    IF size <= ibuf_unused(ib)
    THEN IbufRet(ib, sl, "ok", "noop")
    ELSE ibuf_realloc(ib, sl, size, readahead, answer)

ibuf_reserve(ib, sl, size, readahead, answer) ==
    IF size <= ibuf_unused(ib)
    THEN IbufRet(ib, sl, "ok", "noop")
    ELSE IF size + ibuf_size(ib) <= ib.capacity
    THEN ibuf_defragment(ib, sl)
    ELSE ibuf_realloc(ib, sl, size, readahead, answer)

(* ----------------------------- region ----------------------------------- *)

\* A region (small/region.h) is a bump allocator: an allocation's address
\* is its offset in the region plus 1, region_used is the bytes handed out.
region_create == [used |-> 0, mem |-> <<>>]

region_used(pool) == pool.used

region_free(pool) == [used |-> 0, mem |-> <<>>]

\* region_alloc(pool, size); answer FALSE: the region cannot grow and the
\* call raises.
region_alloc(pool, size, answer) ==
    IF answer
    THEN [ptr |-> pool.used + 1,
          pool |-> [used |-> pool.used + size, mem |-> pool.mem \o Zeros(size)]]
    ELSE [ptr |-> 0, pool |-> pool]

RegionValid(pool, addr, len) ==
    len = 0 \/ (addr >= 1 /\ addr - 1 + len <= pool.used)

RegionRead(pool, addr, len) ==
    IF len = 0 THEN <<>> ELSE SubSeq(pool.mem, addr, addr + len - 1)

RegionWrite(pool, addr, bytes) ==
    IF bytes = <<>> THEN pool
    ELSE [pool EXCEPT !.mem = Overwrite(@, addr - 1, bytes)]

(* --------------------------- struct obuf ------------------------------- *)

Slots == 0..(IOBUF_IOV_MAX - 1)

\* The memory of a struct obuf that mempool_alloc returned: nothing in it
\* is initialised; every field holds the same junk value j.
obuf_junk(j) ==
    [pool |-> region_create, pos |-> j, size |-> j, alloc_factor |-> j,
     capacity |-> [i \in Slots |-> j],
     iov |-> [i \in Slots |-> [iov_base |-> j, iov_len |-> j]]]

obuf_size(b) == b.size

obuf_iovcnt(b) == IF b.iov[b.pos].iov_len > 0 THEN b.pos + 1 ELSE b.pos

ObufRet(b, status, path, ptr) ==
    [out |-> b, status |-> status, path |-> path, ptr |-> ptr]

\* obuf_init_pos that checks pos after the stores: capacity[] is followed
\* by iov[] in struct obuf, so capacity[IOBUF_IOV_MAX] = 0 is a store to
\* iov[0].iov_base.
obuf_init_pos_check_last(b, pos) ==
    IF pos >= IOBUF_IOV_MAX
    THEN ObufRet([b EXCEPT !.iov[0].iov_base = 0], "oom", "iovec", 0)
    ELSE ObufRet([b EXCEPT !.iov[pos] = [iov_base |-> 0, iov_len |-> 0],
                           !.capacity[pos] = 0],
                 "ok", "", 0)

\* obuf_init_pos that tests the limit and leaves the slot as it was.
obuf_init_pos_no_clear(b, pos) ==
    IF pos >= IOBUF_IOV_MAX
    THEN ObufRet(b, "oom", "iovec", 0)
    ELSE ObufRet(b, "ok", "", 0)

\* obuf_init_pos without the limit on the number of slots.
obuf_init_pos_no_limit(b, pos) ==
    IF pos >= IOBUF_IOV_MAX
    THEN ObufRet(b, "ok", "", 0)
    ELSE ObufRet([b EXCEPT !.iov[pos] = [iov_base |-> 0, iov_len |-> 0],
                           !.capacity[pos] = 0],
                 "ok", "", 0)

\* obuf_init_pos that moves pos back to the last segment when it raises.
obuf_init_pos_steps_back(b, pos) ==
    IF pos >= IOBUF_IOV_MAX
    THEN ObufRet([b EXCEPT !.pos = pos - 2], "oom", "iovec", 0)
    ELSE ObufRet([b EXCEPT !.iov[pos] = [iov_base |-> 0, iov_len |-> 0],
                           !.capacity[pos] = 0],
                 "ok", "", 0)

obuf_init_pos(b, pos) ==
    IF pos >= IOBUF_IOV_MAX
    THEN ObufRet(b, "oom", "iovec", 0)
    ELSE ObufRet([b EXCEPT !.iov[pos] = [iov_base |-> 0, iov_len |-> 0],
                           !.capacity[pos] = 0],
                 "ok", "", 0)

\* obuf_alloc_pos without the loop that doubles capacity.
obuf_alloc_pos_no_doubling(b, pos, size, nd, answer) ==
    LET capacity == IF pos > 0 THEN b.capacity[pos - 1] * 2 ELSE b.alloc_factor
        got == region_alloc(b.pool, capacity, answer)
        b1 == [b EXCEPT !.iov[pos].iov_base = got.ptr,
                        !.pool = got.pool,
                        !.capacity[b.pos] = capacity]
    IN IF b.capacity[pos] # 0 /\ ~nd
       THEN ObufRet(b, "abort", "assert capacity[pos] == 0", 0)
       ELSE IF got.ptr = 0
       THEN ObufRet(b, "oom", "region", 0)
       ELSE ObufRet(b1, "ok", "", 0)

obuf_alloc_pos(b, pos, size, nd, answer) ==
    LET start == IF pos > 0 THEN b.capacity[pos - 1] * 2 ELSE b.alloc_factor
        capacity == DoubleUntil(start, size)
        got == region_alloc(b.pool, capacity, answer)
        b1 == [b EXCEPT !.iov[pos].iov_base = got.ptr,
                        !.pool = got.pool,
                        !.capacity[b.pos] = capacity]
    IN IF b.capacity[pos] # 0 /\ ~nd
       THEN ObufRet(b, "abort", "assert capacity[pos] == 0", 0)
       ELSE IF DoublingDiverges(start, size)
       THEN ObufRet(b, "hang", "alloc_pos", 0)
       ELSE IF got.ptr = 0
       THEN ObufRet(b, "oom", "region", 0)
       ELSE IF b1.iov[pos].iov_len # 0 /\ ~nd
       THEN ObufRet(b1, "abort", "assert iov_len == 0", 0)
       ELSE ObufRet(b1, "ok", "", 0)

\* buf->pos++; assert(buf->pos < IOBUF_IOV_MAX); iov = &buf->iov[buf->pos];
\* without the assert the next statement indexes past the arrays.
obuf_next_pos(b, nd) ==
    IF b.pos + 1 < IOBUF_IOV_MAX
    THEN ObufRet([b EXCEPT !.pos = @ + 1], "ok", "", 0)
    ELSE ObufRet(b, IF nd THEN "ub" ELSE "abort", "assert pos < IOBUF_IOV_MAX", 0)

\* The statements of obuf_dup after its loop.
obuf_dup_tail(b, data, nd) ==
    LET iov == b.iov[b.pos]
        addr == iov.iov_base + iov.iov_len
        b1 == [b EXCEPT !.pool = RegionWrite(@, addr, data),
                        !.iov[b.pos].iov_len = @ + Len(data),
                        !.size = @ + Len(data)]
    IN IF ~RegionValid(b.pool, addr, Len(data))
       THEN ObufRet(b, "ub", "memcpy", 0)
       ELSE IF b1.iov[b1.pos].iov_len > b1.capacity[b1.pos] /\ ~nd
       THEN ObufRet(b1, "abort", "assert iov_len <= capacity", 0)
       ELSE ObufRet(b1, "ok", "", 0)

\* The fill branch without buf->size += fill.
obuf_dup_fill_no_size(b, data) ==
    LET iov == b.iov[b.pos]
        fill == b.capacity[b.pos] - iov.iov_len
    IN [b EXCEPT !.pool = RegionWrite(@, iov.iov_base + iov.iov_len,
                                      SubSeq(data, 1, fill)),
                 !.iov[b.pos].iov_len = @ + fill]

\* The first branch of the loop of obuf_dup: fill the current buffer.
\* The fill branch that leaves the last free byte of the segment unused.
obuf_dup_fill_one_short(b, data) ==
    LET iov == b.iov[b.pos]
        fill == b.capacity[b.pos] - iov.iov_len - 1
    IN [b EXCEPT !.pool = RegionWrite(@, iov.iov_base + iov.iov_len,
                                      SubSeq(data, 1, fill)),
                 !.iov[b.pos].iov_len = @ + fill,
                 !.size = @ + fill]

\* The fill branch that copies to the start of the segment instead of to
\* the end of its used part.
obuf_dup_fill_at_base(b, data) ==
    LET iov == b.iov[b.pos]
        fill == b.capacity[b.pos] - iov.iov_len
    IN [b EXCEPT !.pool = RegionWrite(@, iov.iov_base, SubSeq(data, 1, fill)),
                 !.iov[b.pos].iov_len = @ + fill,
                 !.size = @ + fill]

obuf_dup_fill(b, data) ==
    LET iov == b.iov[b.pos]
        fill == b.capacity[b.pos] - iov.iov_len
    IN [b EXCEPT !.pool = RegionWrite(@, iov.iov_base + iov.iov_len,
                                      SubSeq(data, 1, fill)),
                 !.iov[b.pos].iov_len = @ + fill,
                 !.size = @ + fill]

RECURSIVE obuf_dup_loop(_, _, _, _)
obuf_dup_loop(b, data, nd, answer) ==
    LET iov == b.iov[b.pos]
        capacity == b.capacity[b.pos]
        size == Len(data)
    IN IF ~(iov.iov_len + size > capacity)
       THEN obuf_dup_tail(b, data, nd)
       ELSE IF iov.iov_len < capacity
       THEN LET fill == capacity - iov.iov_len
                filled == obuf_dup_fill(b, data)
                next == obuf_next_pos(filled, nd)
            IN IF ~RegionValid(b.pool, iov.iov_base + iov.iov_len, fill)
               THEN ObufRet(b, "ub", "memcpy", 0)
               ELSE IF next.status # "ok" THEN next
               ELSE obuf_dup_loop(next.out, SubSeq(data, fill + 1, size),
                                  nd, answer)
       ELSE IF capacity = 0
       THEN LET init == obuf_init_pos(b, b.pos + 1)
                alloc == obuf_alloc_pos(init.out, init.out.pos, size, nd, answer)
            IN IF init.status # "ok" THEN init
               ELSE IF alloc.status # "ok" THEN alloc
               ELSE obuf_dup_tail(alloc.out, data, nd)
       ELSE IF capacity # iov.iov_len /\ ~nd
       THEN ObufRet(b, "abort", "assert capacity == iov_len", 0)
       ELSE LET next == obuf_next_pos(b, nd)
            IN IF next.status # "ok" THEN next
               ELSE obuf_dup_loop(next.out, data, nd, answer)

obuf_dup(b, data, nd, answer) == obuf_dup_loop(b, data, nd, answer)

\* obuf_reserve_slow that moves to the next slot whatever the current one
\* holds.
obuf_reserve_slow_always_next(b, size, nd, answer) ==
    LET moved == obuf_next_pos(b, nd)
        b1 == moved.out
        capacity == b1.capacity[b1.pos]
        init == obuf_init_pos(b1, b1.pos + 1)
        grown == IF capacity = 0
                 THEN IF init.status # "ok" THEN init
                      ELSE obuf_alloc_pos(init.out, b1.pos, size, nd, answer)
                 ELSE IF size > capacity
                 THEN obuf_alloc_pos(b1, b1.pos, size, nd, answer)
                 ELSE ObufRet(b1, "ok", "", 0)
        b2 == grown.out
        path == IF capacity = 0 THEN "alloc"
                ELSE IF size > capacity THEN "realloc" ELSE "next"
    IN IF moved.status # "ok" THEN moved
       ELSE IF grown.status # "ok" THEN grown
       ELSE ObufRet(b2, "ok", path,
                    b2.iov[b2.pos].iov_base + b2.iov[b2.pos].iov_len)

obuf_reserve_slow(b, size, nd, answer) ==
    LET moved == IF b.iov[b.pos].iov_len > 0
                 THEN obuf_next_pos(b, nd)
                 ELSE ObufRet(b, "ok", "", 0)
        b1 == moved.out
        capacity == b1.capacity[b1.pos]
        init == obuf_init_pos(b1, b1.pos + 1)
        grown == IF capacity = 0
                 THEN IF init.status # "ok" THEN init
                      ELSE obuf_alloc_pos(init.out, b1.pos, size, nd, answer)
                 ELSE IF size > capacity
                 THEN obuf_alloc_pos(b1, b1.pos, size, nd, answer)
                 ELSE ObufRet(b1, "ok", "", 0)
        b2 == grown.out
        path == IF capacity = 0 THEN "alloc"
                ELSE IF size > capacity THEN "realloc" ELSE "next"
    IN IF moved.status # "ok" THEN moved
       ELSE IF b1.iov[b1.pos].iov_len # 0 /\ ~nd
       THEN ObufRet(b1, "abort", "assert iov_len == 0", 0)
       ELSE IF grown.status # "ok" THEN grown
       ELSE IF b2.iov[b2.pos].iov_len + size > b2.capacity[b2.pos] /\ ~nd
       THEN ObufRet(b2, "abort", "assert iov_len + size <= capacity", 0)
       ELSE ObufRet(b2, "ok", path,
                    b2.iov[b2.pos].iov_base + b2.iov[b2.pos].iov_len)

obuf_reserve(b, size, nd, answer) ==
    IF b.iov[b.pos].iov_len + size > b.capacity[b.pos]
    THEN obuf_reserve_slow(b, size, nd, answer)
    ELSE ObufRet(b, "ok", "fast", b.iov[b.pos].iov_base + b.iov[b.pos].iov_len)

\* obuf_alloc that adds the bytes to the segment and not to size.
obuf_alloc_no_size(b, size, nd, answer) ==
    LET slow == b.iov[b.pos].iov_len + size > b.capacity[b.pos]
        rsv == IF slow THEN obuf_reserve_slow(b, size, nd, answer)
               ELSE ObufRet(b, "ok", "fast", 0)
        b1 == rsv.out
        ptr == b1.iov[b1.pos].iov_base + b1.iov[b1.pos].iov_len
        b2 == [b1 EXCEPT !.iov[b1.pos].iov_len = @ + size]
    IN IF rsv.status # "ok" THEN rsv
       ELSE IF ~(b2.iov[b2.pos].iov_len < b2.capacity[b2.pos]) /\ ~nd
       THEN ObufRet(b2, "abort", "assert iov_len < capacity", ptr)
       ELSE ObufRet(b2, "ok", rsv.path, ptr)

obuf_alloc(b, size, nd, answer) ==
    LET slow == b.iov[b.pos].iov_len + size > b.capacity[b.pos]
        rsv == IF slow THEN obuf_reserve_slow(b, size, nd, answer)
               ELSE ObufRet(b, "ok", "fast", 0)
        b1 == rsv.out
        ptr == b1.iov[b1.pos].iov_base + b1.iov[b1.pos].iov_len
        b2 == [b1 EXCEPT !.iov[b1.pos].iov_len = @ + size, !.size = @ + size]
    IN IF rsv.status # "ok" THEN rsv
       ELSE IF ~(b2.iov[b2.pos].iov_len < b2.capacity[b2.pos]) /\ ~nd
       THEN ObufRet(b2, "abort", "assert iov_len < capacity", ptr)
       ELSE ObufRet(b2, "ok", rsv.path, ptr)

obuf_create_svp(b) ==
    [pos |-> b.pos, iov_len |-> b.iov[b.pos].iov_len, size |-> b.size]

obuf_svp_to_ptr(b, s) == b.iov[s.pos].iov_base + s.iov_len

\* What obuf_book returns: the savepoint s in field svp beside the result
\* al of its last call.
BookRet(al, path, s) ==
    [out |-> al.out, status |-> al.status, path |-> path, ptr |-> al.ptr,
     svp |-> s]

\* The statements of obuf_book after obuf_reserve, which ended as rsv.
obuf_book_alloc(rsv, size, nd, answer) ==
    IF rsv.status # "ok"
    THEN BookRet(ObufRet(rsv.out, rsv.status, rsv.path, 0), rsv.path,
                 obuf_create_svp(rsv.out))
    ELSE BookRet(obuf_alloc(rsv.out, size, nd, answer), rsv.path,
                 obuf_create_svp(rsv.out))

\* obuf_book that captures the savepoint before obuf_reserve.
obuf_book_svp_first(b, size, nd, answer) ==
    [obuf_book_alloc(obuf_reserve(b, size, nd, answer), size, nd, answer)
        EXCEPT !.svp = obuf_create_svp(b)]

obuf_book(b, size, nd, answer) ==
    obuf_book_alloc(obuf_reserve(b, size, nd, answer), size, nd, answer)

\* obuf_rollback_to_svp without the loop that empties the later segments.
obuf_rollback_to_svp_no_loop(b, s) ==
    [b EXCEPT !.pos = s.pos, !.size = s.size, !.iov[s.pos].iov_len = s.iov_len]

\* obuf_rollback_to_svp without buf->size = svp->size.
obuf_rollback_to_svp_no_size(b, s) ==
    LET iovcnt == obuf_iovcnt(b)
    IN [b EXCEPT !.pos = s.pos,
                 !.iov = [i \in Slots |->
                            IF i = s.pos THEN [@[i] EXCEPT !.iov_len = s.iov_len]
                            ELSE IF i > s.pos /\ i < iovcnt
                            THEN [@[i] EXCEPT !.iov_len = 0]
                            ELSE @[i]]]

\* obuf_rollback_to_svp that does not restore the used length of the
\* savepoint's segment.
obuf_rollback_to_svp_no_len(b, s) ==
    LET iovcnt == obuf_iovcnt(b)
    IN [b EXCEPT !.pos = s.pos,
                 !.size = s.size,
                 !.iov = [i \in Slots |->
                            IF i > s.pos /\ i < iovcnt
                            THEN [@[i] EXCEPT !.iov_len = 0]
                            ELSE @[i]]]

obuf_rollback_to_svp(b, s) ==
    LET iovcnt == obuf_iovcnt(b)
    IN [b EXCEPT !.pos = s.pos,
                 !.size = s.size,
                 !.iov = [i \in Slots |->
                            IF i = s.pos THEN [@[i] EXCEPT !.iov_len = s.iov_len]
                            ELSE IF i > s.pos /\ i < iovcnt
                            THEN [@[i] EXCEPT !.iov_len = 0]
                            ELSE @[i]]]

obuf_reset(b) ==
    LET iovcnt == obuf_iovcnt(b)
    IN [b EXCEPT !.iov = [i \in Slots |->
                            IF i < iovcnt THEN [@[i] EXCEPT !.iov_len = 0]
                            ELSE @[i]],
                 !.pos = 0,
                 !.size = 0]

\* obuf_create on the memory old: only slot 0 is initialised.
\* obuf_create without the obuf_init_pos of slot 0.
obuf_create_no_init_pos(old, pool, alloc_factor) ==
    [old EXCEPT !.pool = pool, !.pos = 0, !.size = 0,
                !.alloc_factor = alloc_factor]

obuf_create(old, pool, alloc_factor) ==
    obuf_init_pos([old EXCEPT !.pool = pool, !.pos = 0, !.size = 0,
                              !.alloc_factor = alloc_factor], 0).out

\* The bytes of segment i, and of the whole buffer as writev would send it.
obuf_segment(b, i) == RegionRead(b.pool, b.iov[i].iov_base, b.iov[i].iov_len)

RECURSIVE obuf_concat(_, _)
obuf_concat(b, n) ==
    IF n = 0 THEN <<>> ELSE obuf_concat(b, n - 1) \o obuf_segment(b, n - 1)

obuf_bytes(b) == obuf_concat(b, obuf_iovcnt(b))

RECURSIVE SumLen(_, _)
SumLen(b, n) == IF n = 0 THEN 0 ELSE SumLen(b, n - 1) + b.iov[n - 1].iov_len

(* --------------------------- struct iobuf ------------------------------ *)

iobuf_max_pool_size(readahead) == POOL_SIZE_FACTOR * readahead

\* iobuf_is_idle without the test of pins.
iobuf_is_idle_no_pins(io) == ibuf_size(io.in) = 0 /\ obuf_size(io.out) = 0

iobuf_is_idle(io) ==
    ibuf_size(io.in) = 0 /\ obuf_size(io.out) = 0 /\ io.pins = 0

\* iobuf_pin that loses the increment.
iobuf_pin_no_increment(io) == io

iobuf_pin(io) == [io EXCEPT !.pins = @ + 1]

iobuf_unpin(io) == [io EXCEPT !.pins = @ - 1]

\* The first branch of iobuf_new: a struct iobuf from the mempool (its
\* memory holds junk j) with region_create, ibuf_create and obuf_create.
iobuf_construct(j, readahead) ==
    [in |-> ibuf_create,
     out |-> obuf_create(obuf_junk(j), region_create, readahead),
     pins |-> 0]

\* iobuf_new that leaves the unit it returns in iobuf_cache.
iobuf_new_keeps_head(cache, bufs, j, readahead, nd) ==
    LET fresh == Len(bufs) + 1
        u == IF cache = <<>> THEN fresh ELSE Head(cache)
        bufs1 == IF cache = <<>>
                 THEN Append(bufs, iobuf_construct(j, readahead))
                 ELSE bufs
        path == IF cache = <<>> THEN "construct" ELSE "cached"
    IN [unit |-> u, cache |-> cache, iobufs |-> bufs1,
        status |-> "ok", path |-> path]

\* iobuf_new: [unit, cache, iobufs, status, path].
iobuf_new(cache, bufs, j, readahead, nd) ==
    LET fresh == Len(bufs) + 1
        u == IF cache = <<>> THEN fresh ELSE Head(cache)
        bufs1 == IF cache = <<>>
                 THEN Append(bufs, iobuf_construct(j, readahead))
                 ELSE bufs
        cache1 == IF cache = <<>> THEN cache ELSE Tail(cache)
        path == IF cache = <<>> THEN "construct" ELSE "cached"
        max == iobuf_max_pool_size(readahead)
    IN IF ~nd /\ ~(region_used(bufs1[u].out.pool) <= max)
       THEN [unit |-> u, cache |-> cache1, iobufs |-> bufs1,
             status |-> "abort", path |-> "assert region_used <= max"]
       ELSE IF ~nd /\ ~(ibuf_capacity(bufs1[u].in) <= max)
       THEN [unit |-> u, cache |-> cache1, iobufs |-> bufs1,
             status |-> "abort", path |-> "assert ibuf_capacity <= max"]
       ELSE [unit |-> u, cache |-> cache1, iobufs |-> bufs1,
             status |-> "ok", path |-> path]

\* iobuf_delete that leaves the output buffer as it is when the region is
\* kept.
iobuf_delete_no_obuf_reset(io, sl, readahead, nd) ==
    LET max == iobuf_max_pool_size(readahead)
        keep_in == ibuf_capacity(io.in) < max
        keep_out == region_used(io.out.pool) < max
        in1 == IF keep_in THEN ibuf_reset(io.in) ELSE ibuf_create
        sl1 == IF keep_in THEN sl ELSE ibuf_destroy(io.in, sl)
        out1 == IF keep_out THEN io.out
                ELSE obuf_create(io.out, region_free(io.out.pool), readahead)
        path == (IF keep_in THEN "in reset" ELSE "in destroy") \o ", " \o
                (IF keep_out THEN "out reset" ELSE "out free")
    IN IF ~nd /\ io.pins # 0
       THEN [io |-> io, slabs |-> sl, status |-> "abort",
             path |-> "assert pins == 0"]
       ELSE [io |-> [io EXCEPT !.in = in1, !.out = out1], slabs |-> sl1,
             status |-> "ok", path |-> path]

\* iobuf_delete: [io, slabs, status, path]; the caller of the operator
\* pushes the unit on the cache.
iobuf_delete(io, sl, readahead, nd) ==
    LET max == iobuf_max_pool_size(readahead)
        keep_in == ibuf_capacity(io.in) < max
        keep_out == region_used(io.out.pool) < max
        in1 == IF keep_in THEN ibuf_reset(io.in) ELSE ibuf_create
        sl1 == IF keep_in THEN sl ELSE ibuf_destroy(io.in, sl)
        out1 == IF keep_out THEN obuf_reset(io.out)
                ELSE obuf_create(io.out, region_free(io.out.pool), readahead)
        path == (IF keep_in THEN "in reset" ELSE "in destroy") \o ", " \o
                (IF keep_out THEN "out reset" ELSE "out free")
    IN IF ~nd /\ io.pins # 0
       THEN [io |-> io, slabs |-> sl, status |-> "abort",
             path |-> "assert pins == 0"]
       ELSE [io |-> [io EXCEPT !.in = in1, !.out = out1], slabs |-> sl1,
             status |-> "ok", path |-> path]

\* iobuf_reset that resets the input buffer whatever it holds.
iobuf_reset_any_input(io) ==
    [io EXCEPT !.in = ibuf_reset(@), !.out = obuf_reset(@)]

iobuf_reset(io) ==
    [io EXCEPT !.in = IF ibuf_size(io.in) = 0 THEN ibuf_reset(@) ELSE @,
               !.out = obuf_reset(@)]

(* ------------------------------ callers -------------------------------- *)

NoSvp == [unit |-> 0]

NoReserved == [unit |-> 0, ptr |-> 0, n |-> 0]

Running == halted = ""

InCache(u) == \E i \in 1..Len(iobuf_cache) : iobuf_cache[i] = u

\* A unit a connection holds: constructed and not in the cache.
CheckedOut(u) == u \in DOMAIN iobufs /\ ~InCache(u)

\* The history of calls: not kept, or kept and empty; and how a call that
\* ended with status is added to it (one that raised is kept as such).
NoCalls == [on |-> FALSE, seq |-> <<>>]

CallsFrom == [on |-> TRUE, seq |-> <<>>]

Logged(c, status, op, n) ==
    IF c.on
    THEN [c EXCEPT !.seq = Append(@, [op |-> IF status = "ok" THEN op
                                             ELSE "raised",
                                      n |-> n])]
    ELSE c

\* Every call of seq returned.
AllReturned(seq) == \A i \in 1..Len(seq) : seq[i].op # "raised"

\* The calls of seq made again on buffer b, region_alloc refusing every
\* request: [out, status, path, ptr] of the last one, or of the first
\* that did not return.
RECURSIVE Replay(_, _, _)
Replay(b, seq, nd) ==
    IF seq = <<>> THEN ObufRet(b, "ok", "", 0)
    ELSE LET c == Head(seq)
             r == IF c.op = "obuf_dup"
                  THEN obuf_dup(b, [i \in 1..c.n |-> 1], nd, FALSE)
                  ELSE IF c.op = "obuf_reserve"
                  THEN obuf_reserve(b, c.n, nd, FALSE)
                  ELSE obuf_alloc(b, c.n, nd, FALSE)
         IN IF r.status # "ok" THEN r ELSE Replay(r.out, Tail(seq), nd)

\* The savepoint s the caller keeps, with history: the segments and the
\* bytes the buffer held when s was captured, and whether the buffer was
\* rolled back to s since ("no", "same": from the same segment, "back":
\* from a later one).
SvpOf(u, b, s) ==
    [unit |-> u, s |-> s,
     segs |-> [i \in Slots |-> IF i <= s.pos THEN obuf_segment(b, i) ELSE <<>>],
     bytes |-> obuf_bytes(b),
     rolled |-> "no"]

\* History of a savepoint that obuf_book returned: the number of bytes
\* booked and the pointer obuf_alloc returned for them.
Booking(sv, n, ptr) ==
    [unit |-> sv.unit, s |-> sv.s, segs |-> sv.segs, bytes |-> sv.bytes,
     rolled |-> sv.rolled, booked |-> n, ptr |-> ptr]

\* The bytes of data an append took: all of data when it returned, and
\* when it did not, those it had added to size (from before to after).
Taken(status, data, before, after) ==
    IF status = "ok" THEN data ELSE SubSeq(data, 1, after - before)

(* ------------------------- input buffer actions ------------------------ *)

IbufReserve(u, n, answer, limit) ==
    /\ Running /\ CheckedOut(u)
    /\ LET r == ibuf_reserve(iobufs[u].in, slabs, n, iobuf_readahead, answer)
       IN /\ r.in.capacity <= limit
          /\ iobufs' = [iobufs EXCEPT ![u].in = r.in]
          /\ slabs' = r.slabs
          /\ halted' = HaltOf(r.status)
          /\ last' = Call("ibuf_reserve", r.status, r.path, u, n,
                          [kind |-> "ibuf", in |-> iobufs[u].in,
                           slabs |-> slabs])
    /\ UNCHANGED <<iobuf_readahead, iobuf_cache, NDEBUG, svp, reserved, stream>>
    /\ UNCHANGED <<pinned, held, peak, calls>>

\* A read of Len(data) bytes at end: the caller advances end.
IbufFill(u, data) ==
    /\ Running /\ CheckedOut(u)
    /\ Len(data) >= 1 /\ Len(data) <= ibuf_unused(iobufs[u].in)
    /\ slabs' = MemWrite(slabs, iobufs[u].in.end, data)
    /\ iobufs' = [iobufs EXCEPT ![u].in.end = @ + Len(data)]
    /\ last' = Call("fill", "ok", "", u, 0, NoPre)
    /\ UNCHANGED <<iobuf_readahead, iobuf_cache, NDEBUG, halted, svp,
                   reserved, stream>>
    /\ UNCHANGED <<pinned, held, peak, calls>>

\* The parser consumed k bytes: in->pos += k.
IbufConsume(u, k) ==
    /\ Running /\ CheckedOut(u)
    /\ k >= 1 /\ k <= ibuf_size(iobufs[u].in)
    /\ iobufs' = [iobufs EXCEPT ![u].in.pos = @ + k]
    /\ last' = Call("consume", "ok", "", u, 0, NoPre)
    /\ UNCHANGED <<iobuf_readahead, iobuf_cache, slabs, NDEBUG, halted, svp,
                   reserved, stream>>
    /\ UNCHANGED <<pinned, held, peak, calls>>

(* ------------------------ output buffer actions ------------------------ *)

\* What every call on unit u's obuf leaves of the caller's bookkeeping;
\* limit bounds the region.
ObufStep(u, op, r, n, data, pre, limit) ==
    /\ r.out.pool.used <= limit
    /\ iobufs' = [iobufs EXCEPT ![u].out = r.out]
    /\ halted' = HaltOf(r.status)
    /\ stream' = [stream EXCEPT
                    ![u] = @ \o Taken(r.status, data, iobufs[u].out.size,
                                        r.out.size)]
    /\ last' = Call(op, r.status, r.path, u, n, pre)
    /\ calls.on => Len(calls.seq) < MaxCalls
    /\ calls' = Logged(calls, r.status, op, IF op = "obuf_reserve" THEN n
                                            ELSE Len(data))
    /\ UNCHANGED <<iobuf_readahead, iobuf_cache, slabs, NDEBUG>>

ObufDup(u, data, answer, limit) ==
    /\ Running /\ CheckedOut(u)
    /\ ObufStep(u, "obuf_dup", obuf_dup(iobufs[u].out, data, NDEBUG, answer),
                0, data,
                IF calls.on
                THEN [kind |-> "obuf", out |-> iobufs[u].out, exact |-> FALSE,
                      data |-> data]
                ELSE NoPre,
                limit)
    /\ reserved' = NoReserved
    /\ UNCHANGED svp
    /\ UNCHANGED <<pinned, held, peak>>

ObufReserve(u, n, answer, limit) ==
    /\ Running /\ CheckedOut(u)
    /\ LET r == obuf_reserve(iobufs[u].out, n, NDEBUG, answer)
       IN /\ ObufStep(u, "obuf_reserve", r, n, <<>>,
                      [kind |-> "obuf", out |-> iobufs[u].out,
                       exact |-> FALSE], limit)
          /\ reserved' = IF r.status = "ok"
                         THEN [unit |-> u, ptr |-> r.ptr, n |-> n]
                         ELSE NoReserved
    /\ UNCHANGED svp
    /\ UNCHANGED <<pinned, held, peak>>

\* After obuf_reserve(n): write wsize <= n bytes at the returned pointer,
\* then obuf_alloc(wsize); exact records wsize = n.
ObufWriteAlloc(u, data, answer, limit) ==
    /\ Running /\ CheckedOut(u)
    /\ reserved.unit = u /\ Len(data) <= reserved.n
    /\ LET b == iobufs[u].out
           written == [b EXCEPT !.pool = RegionWrite(@, reserved.ptr, data)]
           r == IF RegionValid(b.pool, reserved.ptr, Len(data))
                THEN obuf_alloc(written, Len(data), NDEBUG, answer)
                ELSE ObufRet(b, "ub", "write", 0)
       IN ObufStep(u, "obuf_alloc", r, Len(data), data,
                   [kind |-> "obuf", out |-> b,
                    exact |-> Len(data) = reserved.n], limit)
    /\ reserved' = NoReserved
    /\ UNCHANGED svp
    /\ UNCHANGED <<pinned, held, peak>>

\* The caller writes data at the pointer the call that ended as r returned.
WriteAt(r, data) ==
    IF r.status # "ok" THEN r
    ELSE IF ~RegionValid(r.out.pool, r.ptr, Len(data))
    THEN ObufRet(r.out, "ub", "write", 0)
    ELSE [r EXCEPT !.out.pool = RegionWrite(@, r.ptr, data)]

\* obuf_alloc(n) with no reservation: the caller writes at the pointer
\* obuf_alloc returns.
ObufAlloc(u, data, answer, limit) ==
    /\ Running /\ CheckedOut(u)
    /\ reserved.unit # u
    /\ ObufStep(u, "obuf_alloc",
                WriteAt(obuf_alloc(iobufs[u].out, Len(data), NDEBUG, answer),
                        data),
                Len(data), data, NoPre, limit)
    /\ reserved' = NoReserved
    /\ UNCHANGED svp
    /\ UNCHANGED <<pinned, held, peak>>

\* The caller leaves the bytes booked by the call that ended as r unset
\* (0) until it patches them.
BookWritten(r, n) ==
    IF r.status # "ok" \/ ~RegionValid(r.out.pool, r.ptr, n)
    THEN r
    ELSE [r EXCEPT !.out.pool = RegionWrite(@, r.ptr, Zeros(n))]

\* obuf_book(n) that ended as r on the buffer that was b; the booked
\* bytes are patched later and count as 0 bytes of the stream until then.
ObufBookStep(u, r, n, b, limit) ==
    /\ ObufStep(u, "obuf_book", r, n, Zeros(n),
                [kind |-> "obuf", out |-> b, exact |-> FALSE], limit)
    /\ svp' = IF r.status = "ok"
              THEN Booking([SvpOf(u, b, r.svp) EXCEPT !.bytes = stream[u]],
                           n, r.ptr)
              ELSE svp

ObufBook(u, n, answer, limit) ==
    /\ Running /\ CheckedOut(u)
    /\ ObufBookStep(u, BookWritten(obuf_book(iobufs[u].out, n, NDEBUG, answer),
                                   n),
                    n, iobufs[u].out, limit)
    /\ reserved' = NoReserved
    /\ UNCHANGED <<pinned, held, peak>>

ObufCreateSvp(u) ==
    /\ Running /\ CheckedOut(u)
    /\ svp' = SvpOf(u, iobufs[u].out, obuf_create_svp(iobufs[u].out))
    /\ last' = Call("obuf_create_svp", "ok", "", u, 0, NoPre)
    /\ UNCHANGED <<iobuf_readahead, iobuf_cache, iobufs, slabs, NDEBUG,
                   halted, reserved, stream>>
    /\ UNCHANGED <<pinned, held, peak, calls>>

\* Rollback to the savepoint the caller holds (captured since the last
\* reset of the buffer).
ObufRollback(u) ==
    /\ Running /\ CheckedOut(u)
    /\ svp.unit = u
    /\ iobufs' = [iobufs EXCEPT ![u].out = obuf_rollback_to_svp(@, svp.s)]
    /\ stream' = [stream EXCEPT ![u] = svp.bytes]
    /\ reserved' = NoReserved
    /\ svp' = [svp EXCEPT !.rolled = IF iobufs[u].out.pos > svp.s.pos
                                     THEN "back" ELSE "same"]
    /\ last' = Call("obuf_rollback_to_svp", "ok", "", u, 0, NoPre)
    /\ calls.on => Len(calls.seq) < MaxCalls
    /\ calls' = Logged(calls, "ok", "obuf_rollback_to_svp", 0)
    /\ UNCHANGED <<iobuf_readahead, iobuf_cache, slabs, NDEBUG, halted>>
    /\ UNCHANGED <<pinned, held, peak>>

(* --------------------------- iobuf actions ----------------------------- *)

\* What a reset or a release of unit u leaves of the caller's bookkeeping.
Forget(u) ==
    /\ svp' = IF svp.unit = u THEN NoSvp ELSE svp
    /\ reserved' = IF reserved.unit = u THEN NoReserved ELSE reserved

IobufNew(limit, j) ==
    /\ Running
    /\ iobuf_cache # <<>> \/ Len(iobufs) < limit
    /\ LET r == iobuf_new(iobuf_cache, iobufs, j, iobuf_readahead, NDEBUG)
       IN /\ iobufs' = r.iobufs
          /\ iobuf_cache' = r.cache
          /\ stream' = IF r.unit \in DOMAIN stream THEN stream
                       ELSE Append(stream, <<>>)
          /\ halted' = HaltOf(r.status)
          /\ last' = Call("iobuf_new", r.status, r.path, r.unit, 0,
                          [kind |-> "pool", cache |-> iobuf_cache,
                           units |-> Len(iobufs)])
          /\ held' = IF r.status = "ok" THEN Append(held, r.unit) ELSE held
          /\ peak' = IF r.status = "ok" THEN Max(peak, Len(held) + 1)
                     ELSE peak
    /\ UNCHANGED <<iobuf_readahead, slabs, NDEBUG, svp, reserved, pinned,
                   calls>>

IobufDelete(u) ==
    /\ Running /\ CheckedOut(u)
    /\ LET r == iobuf_delete(iobufs[u], slabs, iobuf_readahead, NDEBUG)
       IN /\ iobufs' = [iobufs EXCEPT ![u] = r.io]
          /\ slabs' = r.slabs
          /\ iobuf_cache' = IF r.status = "ok" THEN <<u>> \o iobuf_cache
                            ELSE iobuf_cache
          /\ stream' = IF r.status = "ok" THEN [stream EXCEPT ![u] = <<>>]
                       ELSE stream
          /\ halted' = HaltOf(r.status)
          /\ last' = Call("iobuf_delete", r.status, r.path, u, 0,
                          [kind |-> "iobuf", io |-> iobufs[u],
                           slabs |-> slabs, cache |-> iobuf_cache])
          /\ held' = IF r.status = "ok" THEN Without(held, u) ELSE held
    /\ Forget(u)
    /\ calls' = [calls EXCEPT !.seq = <<>>]
    /\ UNCHANGED <<iobuf_readahead, NDEBUG, pinned, peak>>

IobufReset(u) ==
    /\ Running /\ CheckedOut(u)
    /\ iobufs' = [iobufs EXCEPT ![u] = iobuf_reset(@)]
    /\ stream' = [stream EXCEPT ![u] = <<>>]
    /\ last' = Call("iobuf_reset", "ok", "", u, 0,
                    [kind |-> "iobuf", io |-> iobufs[u],
                     slabs |-> slabs, cache |-> iobuf_cache,
                     calls |-> calls.seq])
    /\ calls' = [calls EXCEPT !.seq = <<>>]
    /\ Forget(u)
    /\ UNCHANGED <<iobuf_readahead, iobuf_cache, slabs, NDEBUG, halted>>
    /\ UNCHANGED <<pinned, held, peak>>

IobufPin(u) ==
    /\ Running /\ CheckedOut(u)
    /\ iobufs[u].pins < MaxPins
    /\ iobufs' = [iobufs EXCEPT ![u] = iobuf_pin(@)]
    /\ last' = Call("iobuf_pin", "ok", "", u, 0, NoPre)
    /\ UNCHANGED <<iobuf_readahead, iobuf_cache, slabs, NDEBUG, halted, svp,
                   reserved, stream>>
    /\ UNCHANGED <<pinned, held, peak, calls>>

\* Only a holder of a pin unpins.
IobufUnpin(u) ==
    /\ Running /\ CheckedOut(u)
    /\ iobufs[u].pins > 0
    /\ iobufs' = [iobufs EXCEPT ![u] = iobuf_unpin(@)]
    /\ last' = Call("iobuf_unpin", "ok", "", u, 0, NoPre)
    /\ UNCHANGED <<iobuf_readahead, iobuf_cache, slabs, NDEBUG, halted, svp,
                   reserved, stream>>
    /\ UNCHANGED <<pinned, held, peak, calls>>

IobufSetReadahead(v) ==
    /\ Running
    /\ v # iobuf_readahead
    /\ iobuf_readahead' = v
    /\ last' = Call("iobuf_set_readahead", "ok", "", 0, 0,
                    [kind |-> "global", readahead |-> iobuf_readahead,
                     iobufs |-> iobufs, slabs |-> slabs,
                     cache |-> iobuf_cache])
    /\ UNCHANGED <<iobuf_cache, iobufs, slabs, NDEBUG, halted, svp, reserved,
                   stream>>
    /\ UNCHANGED <<pinned, held, peak, calls>>

(* --------------------------- specifications ---------------------------- *)

\* The process after iobuf_init(), before any iobuf_new.
InitPool(readaheads) ==
    /\ iobuf_readahead \in readaheads
    /\ NDEBUG \in BOOLEAN
    /\ iobuf_cache = <<>>
    /\ iobufs = <<>>
    /\ slabs = <<>>
    /\ halted = ""
    /\ svp = NoSvp
    /\ reserved = NoReserved
    /\ stream = <<>>
    /\ last = NoLast
    /\ pinned = 0
    /\ held = <<>>
    /\ peak = 0
    /\ calls = NoCalls

\* One connection holding unit 1, just returned by iobuf_new.
InitOne(readaheads, junks, recorded) ==
    /\ iobuf_readahead \in readaheads
    /\ NDEBUG \in BOOLEAN
    /\ iobuf_cache = <<>>
    /\ \E j \in junks : iobufs = <<iobuf_construct(j, iobuf_readahead)>>
    /\ slabs = <<>>
    /\ halted = ""
    /\ svp = NoSvp
    /\ reserved = NoReserved
    /\ stream = << <<>> >>
    /\ last = NoLast
    /\ pinned = 0
    /\ held = <<1>>
    /\ peak = 1
    /\ calls \in recorded

\* The input buffer of one connection.
InitIbuf == InitOne(ReadaheadValues, {0}, {NoCalls})

NextIbuf ==
    \/ \E n \in 0..MaxReserve, a \in SlabAnswers : IbufReserve(1, n, a, MaxCap)
    \/ \E d \in SeqUpTo(Byte, MaxChunk) : IbufFill(1, d)
    \/ \E k \in 1..MaxChunk : IbufConsume(1, k)
    \/ IobufReset(1)
    \/ IobufDelete(1)
    \/ IobufNew(1, 0)
    \/ \E v \in ReadaheadValues : IobufSetReadahead(v)

SpecIbuf == InitIbuf /\ [][NextIbuf]_vars

\* The output buffer of one connection: appends and resets.  The slots
\* obuf_create did not initialise hold nonzero junk.
InitObuf == InitOne({1}, JunkValues \ {0}, {NoCalls})

NextObuf ==
    \/ \E d \in SeqUpTo(Byte, MaxChunk), a \in BOOLEAN :
          ObufDup(1, d, a, MaxRegion)
    \/ \E n \in 0..MaxReserve, a \in BOOLEAN : ObufReserve(1, n, a, MaxRegion)
    \/ \E d \in SeqUpTo(Byte, MaxChunk), a \in BOOLEAN :
          ObufWriteAlloc(1, d, a, MaxRegion)
    \/ IobufReset(1)

SpecObuf == InitObuf /\ [][NextObuf]_vars

\* The output buffer of one connection with the history of its calls:
\* the connection builds a reply and flushes it (iobuf_reset), again and
\* again; the region has memory for every request.
InitReplay == InitOne({1}, JunkValues \ {0}, {CallsFrom})

NextReplay ==
    \/ \E d \in SeqUpTo({1}, MaxChunk) : ObufDup(1, d, TRUE, MaxRegion)
    \/ \E n \in 1..MaxReserve : ObufReserve(1, n, TRUE, MaxRegion)
    \/ \E d \in SeqUpTo({1}, MaxChunk) : ObufWriteAlloc(1, d, TRUE, MaxRegion)
    \/ IobufReset(1)

SpecReplay == InitReplay /\ [][NextReplay]_vars

\* The scenario of the documentation: a fresh output buffer created with
\* alloc_factor 128 takes appends of 100 bytes (of value 1) and of 50
\* bytes (of value 2), savepoints and rollbacks; the calls are recorded.
InitScenario == InitOne({128}, JunkValues \ {0}, {CallsFrom})

NextScenario ==
    \/ ObufDup(1, [i \in 1..100 |-> 1], TRUE, MaxScenarioRegion)
    \/ ObufDup(1, [i \in 1..50 |-> 2], TRUE, MaxScenarioRegion)
    \/ ObufCreateSvp(1)
    \/ ObufRollback(1)

SpecScenario == InitScenario /\ [][NextScenario]_vars

\* The output buffer of one connection: appends, savepoints, rollbacks.
NextSvp ==
    \/ \E d \in SeqUpTo(Byte, MaxChunk), a \in BOOLEAN :
          ObufDup(1, d, a, MaxRegion)
    \/ \E d \in SeqUpTo(Byte, MaxChunk), a \in BOOLEAN :
          ObufAlloc(1, d, a, MaxRegion)
    \/ ObufCreateSvp(1)
    \/ ObufRollback(1)
    \/ IobufReset(1)

SpecSvp == InitObuf /\ [][NextSvp]_vars

\* The output buffer of one connection that books bytes (a length prefix)
\* and appends after them; it may roll back to the savepoint of the
\* booking, and it flushes.
NextBook ==
    \/ \E n \in 0..MaxChunk, a \in BOOLEAN : ObufBook(1, n, a, MaxRegion)
    \/ \E d \in SeqUpTo({1}, MaxChunk), a \in BOOLEAN :
          ObufDup(1, d, a, MaxRegion)
    \/ \E n \in 1..MaxReserve : ObufReserve(1, n, TRUE, MaxRegion)
    \/ ObufRollback(1)
    \/ IobufReset(1)

SpecBook == InitObuf /\ [][NextBook]_vars

\* The output buffer of one connection under every operation that changes
\* its size: reserve, write and alloc, dup, book, savepoints and rollbacks,
\* and the flush; the region may refuse memory to obuf_dup.
NextSize ==
    \/ \E d \in SeqUpTo({1}, MaxChunk), a \in BOOLEAN :
          ObufDup(1, d, a, MaxRegion)
    \/ \E n \in 1..MaxChunk : ObufReserve(1, n, TRUE, MaxRegion)
    \/ \E d \in SeqUpTo({1}, MaxChunk) : ObufWriteAlloc(1, d, TRUE, MaxRegion)
    \/ \E n \in 1..MaxChunk : ObufBook(1, n, TRUE, MaxRegion)
    \/ ObufCreateSvp(1)
    \/ ObufRollback(1)
    \/ IobufReset(1)

SpecSize == InitObuf /\ [][NextSize]_vars

\* One unit through several lives, with the state before each call on its
\* output buffer recorded: connections append small and large replies,
\* flush and release the unit; a large reply takes the region over the
\* ceiling, so that iobuf_delete takes both the keeping and the bulk-free
\* branch.
InitReuse == InitOne({1}, JunkValues, {CallsFrom})

NextReuse ==
    \/ IobufNew(1, 0)
    \/ iobufs[1].pins = 0 /\ IobufDelete(1)
    \/ IobufReset(1)
    \/ \E n \in {1, MaxChunk, LargeChunk} :
          ObufDup(1, [i \in 1..n |-> 1], TRUE, MaxReuseRegion)
    \/ \E n \in 1..MaxChunk : ObufReserve(1, n, TRUE, MaxReuseRegion)
    \/ \E d \in SeqUpTo({1}, MaxChunk) :
          ObufWriteAlloc(1, d, TRUE, MaxReuseRegion)

SpecReuse == InitReuse /\ [][NextReuse]_vars

\* Appends that cross segments: one unit with readahead 1 takes obuf_dup
\* of up to MaxDup bytes, each byte numbered by its place in the data,
\* obuf_reserve, savepoints and rollbacks, MaxCalls calls in all; the
\* calls and the buffer before each append are recorded.
InitDup == InitOne({1}, JunkValues, {CallsFrom})

NextDup ==
    \/ \E n \in 0..MaxDup : ObufDup(1, [i \in 1..n |-> i], TRUE, MaxDupRegion)
    \/ \E n \in 1..MaxChunk : ObufReserve(1, n, TRUE, MaxDupRegion)
    \/ ObufCreateSvp(1)
    \/ ObufRollback(1)

SpecDup == InitDup /\ [][NextDup]_vars

\* One connection at a time: it acquires the unit, reads, writes, pins,
\* unpins and releases it; the next connection gets the unit from the cache.
Init == InitPool({1})

Next ==
    \/ \E j \in JunkValues : IobufNew(1, j)
    \/ iobufs # <<>> /\ iobufs[1].pins = 0 /\ IobufDelete(1)
    \/ IobufReset(1)
    \/ IobufPin(1)
    \/ IobufUnpin(1)
    \/ \E n \in 1..MaxPoolChunk : IbufReserve(1, n, 0, MaxPoolChunk)
    \/ IbufFill(1, <<1>>)
    \/ IbufConsume(1, 1)
    \/ \E d \in SeqUpTo({1}, MaxPoolChunk) : ObufDup(1, d, TRUE, MaxPoolChunk)
    \/ \E v \in {0, 1} : IobufSetReadahead(v)

Spec == Init /\ [][Next]_vars

(* ------------------------------ the pool -------------------------------- *)

\* Up to MaxUnits connections at a time: each acquires a unit, writes to
\* it, flushes (iobuf_reset) and releases it once; a unit in the cache is
\* acquired again.
NextPool ==
    \/ \E j \in JunkValues : IobufNew(MaxUnits, j)
    \/ \E i \in 1..Len(held) : IobufDelete(held[i])
    \/ \E i \in 1..Len(held) : ObufDup(held[i], <<1>>, TRUE, 1)
    \/ \E i \in 1..Len(held) : IobufReset(held[i])

SpecPool == Init /\ [][NextPool]_vars

(* --------------------------- two tasks, one unit ------------------------ *)

\* A second task (one that was handed the unit, e.g. to write from it
\* later) pins the unit the owner holds.
TaskPin(u) ==
    /\ Running /\ CheckedOut(u)
    /\ pinned < MaxPins
    /\ iobufs' = [iobufs EXCEPT ![u] = iobuf_pin(@)]
    /\ pinned' = pinned + 1
    /\ UNCHANGED <<held, peak, calls>>
    /\ last' = Call("iobuf_pin", "ok", "", u, 0, NoPre)
    /\ UNCHANGED <<iobuf_readahead, iobuf_cache, slabs, NDEBUG, halted, svp,
                   reserved, stream>>

\* The second task drops one of its pins.
TaskUnpin(u) ==
    /\ Running /\ CheckedOut(u)
    /\ pinned > 0
    /\ iobufs' = [iobufs EXCEPT ![u] = iobuf_unpin(@)]
    /\ pinned' = pinned - 1
    /\ UNCHANGED <<held, peak, calls>>
    /\ last' = Call("iobuf_unpin", "ok", "", u, 0, NoPre)
    /\ UNCHANGED <<iobuf_readahead, iobuf_cache, slabs, NDEBUG, halted, svp,
                   reserved, stream>>

\* Either task releases the unit, and only when iobuf_is_idle says so.
ReleaseWhenIdle(u) ==
    /\ CheckedOut(u)
    /\ iobuf_is_idle(iobufs[u])
    /\ IobufDelete(u)

\* The owner of unit 1 reads, parses, writes and flushes; a second task
\* pins and unpins the unit; steps of the two interleave in any order
\* (buffer calls never yield); whoever finds the unit idle releases it,
\* and the next connection acquires it from the cache.
NextPins ==
    \/ \E j \in JunkValues : IobufNew(1, j)
    \/ \E n \in 1..MaxPoolChunk : IbufReserve(1, n, 0, MaxPoolChunk)
    \/ IbufFill(1, <<1>>)
    \/ IbufConsume(1, 1)
    \/ \E d \in SeqUpTo({1}, MaxPoolChunk) : ObufDup(1, d, TRUE, MaxPoolChunk)
    \/ IobufReset(1)
    \/ TaskPin(1)
    \/ TaskUnpin(1)
    \/ ReleaseWhenIdle(1)

SpecPins == Init /\ [][NextPins]_vars

(* ------------------------------ properties ----------------------------- *)

\* The output buffer b is well formed: the current slot is a slot of the
\* array, size is the sum of the used lengths of the slots up to it, no
\* slot up to it holds more than its capacity, and a slot that holds bytes
\* points to memory of the region.
ObufValid(b) ==
    /\ b.pos \in Slots
    /\ obuf_size(b) = SumLen(b, b.pos + 1)
    /\ \A i \in 0..b.pos :
          /\ b.iov[i].iov_len >= 0 /\ b.iov[i].iov_len <= b.capacity[i]
          /\ b.iov[i].iov_len > 0 =>
                RegionValid(b.pool, b.iov[i].iov_base, b.capacity[i])

\* Every byte the buffer held in state b is, in state b2, in the same
\* segment at the same address with the same value.
ObufKept(b, b2) ==
    \A i \in 0..(obuf_iovcnt(b) - 1) :
        /\ b2.iov[i].iov_base = b.iov[i].iov_base
        /\ b2.iov[i].iov_len >= b.iov[i].iov_len
        /\ RegionValid(b2.pool, b.iov[i].iov_base, b.iov[i].iov_len)
        /\ RegionRead(b2.pool, b.iov[i].iov_base, b.iov[i].iov_len)
              = obuf_segment(b, i)

\* C1: the chunks appended since the buffer was created or last reset,
\* concatenated in order, are what the used bytes of segments
\* 0..obuf_iovcnt()-1 hold, concatenated in segment order, and obuf_size()
\* is the length of that stream.
C1_RoundTrip ==
    halted = "" =>
        /\ obuf_bytes(iobufs[1].out) = stream[1]
        /\ obuf_size(iobufs[1].out) = Len(stream[1])

\* C1 case: an obuf_dup returned on a buffer that was reset before (its
\* second segment still holds a byte of the earlier stream past its used
\* length) and filled the first segment and part of the second.
C1_DupSpansReusedSegments ==
    LET b == iobufs[1].out
    IN /\ last.op = "obuf_dup" /\ last.status = "ok"
       /\ b.pos = 1 /\ b.iov[0].iov_len > 0 /\ b.iov[1].iov_len > 0
       /\ b.iov[1].iov_len < b.capacity[1]
       /\ \E k \in (b.iov[1].iov_len + 1)..b.capacity[1] :
             b.pool.mem[b.iov[1].iov_base + k - 1] # 0

\* C2: once the buffer was rolled back to the savepoint the caller holds,
\* (a) right after the rollback size(), the current segment, the contents
\* of the segments up to the savepoint and the concatenated bytes are what
\* they were when the savepoint was captured, and (b) from then on the
\* buffer holds the bytes of the savepoint followed by the bytes appended
\* after the rollback, as if the rolled back appends had never been made.
C2_SavepointLaw ==
    (svp.unit = 1 /\ svp.rolled # "no") =>
        LET b == iobufs[1].out
            A == svp.bytes
        IN /\ last.op = "obuf_rollback_to_svp" =>
                 /\ obuf_size(b) = svp.s.size
                 /\ b.pos = svp.s.pos
                 /\ \A i \in 0..svp.s.pos : obuf_segment(b, i) = svp.segs[i]
                 /\ obuf_bytes(b) = A
           /\ halted = "" =>
                 /\ Len(stream[1]) >= Len(A)
                 /\ obuf_bytes(b) =
                       A \o SubSeq(stream[1], Len(A) + 1, Len(stream[1]))
                 /\ obuf_size(b) = Len(obuf_bytes(b))

\* C2 case: the appends that were rolled back had moved to a later
\* segment, and an obuf_dup after the rollback returned having moved past
\* the segment of the savepoint again.
C2_AppendAfterRollback ==
    /\ svp.unit = 1 /\ svp.rolled = "back"
    /\ last.op = "obuf_dup" /\ last.status = "ok"
    /\ Len(svp.bytes) > 0
    /\ Len(stream[1]) > Len(svp.bytes)
    /\ iobufs[1].out.pos > svp.s.pos

\* C3: obuf_reserve(n) that returned leaves size() and every appended byte
\* (value, segment, address) as they were; writing n bytes at the pointer
\* it returned and calling obuf_alloc(n) returns, adds n to size() and to
\* the used length of the current segment, and leaves every byte appended
\* before as it was.  (Stated for n >= 1; n = 0 fares no better.)
C3_ReserveWriteAlloc ==
    LET b2 == iobufs[1].out
    IN /\ (last.op = "obuf_reserve" /\ last.status = "ok") =>
             /\ obuf_size(b2) = obuf_size(last.pre.out)
             /\ ObufKept(last.pre.out, b2)
       /\ (last.op = "obuf_alloc" /\ last.pre.kind = "obuf"
              /\ last.pre.exact /\ last.n >= 1) =>
             LET b == last.pre.out
                 n == last.n
             IN /\ last.status = "ok"
                /\ obuf_size(b2) = obuf_size(b) + n
                /\ b2.pos = b.pos
                /\ b2.iov[b.pos].iov_len = b.iov[b.pos].iov_len + n
                /\ ObufKept(b, b2)

\* C3 case: in a build with assertions, obuf_alloc(n) after obuf_reserve(n)
\* filled the current segment to its capacity: it added n to size() and to
\* the used length, and then its closing assert(iov_len < capacity) failed.
C3_AllocAbortsOnExactFit ==
    /\ last.op = "obuf_alloc" /\ last.status = "abort"
    /\ last.path = "assert iov_len < capacity"
    /\ last.pre.kind = "obuf" /\ last.pre.exact /\ last.n >= 1
    /\ obuf_size(iobufs[1].out) = obuf_size(last.pre.out) + last.n
    /\ iobufs[1].out.iov[iobufs[1].out.pos].iov_len
          = iobufs[1].out.capacity[iobufs[1].out.pos]

\* What C3 says of the calls that return: the same statement for the
\* obuf_alloc(n) calls that did not stop the process.
C3_WhenAllocReturns ==
    LET b2 == iobufs[1].out
    IN /\ (last.op = "obuf_reserve" /\ last.status = "ok") =>
             /\ obuf_size(b2) = obuf_size(last.pre.out)
             /\ ObufKept(last.pre.out, b2)
       /\ (last.op = "obuf_alloc" /\ last.pre.kind = "obuf"
              /\ last.pre.exact /\ last.status = "ok") =>
             LET b == last.pre.out
                 n == last.n
             IN /\ obuf_size(b2) = obuf_size(b) + n
                /\ b2.pos = b.pos
                /\ b2.iov[b.pos].iov_len = b.iov[b.pos].iov_len + n
                /\ ObufKept(b, b2)
                /\ obuf_bytes(b2) = stream[1]

\* C4: no append indexes past the segment array: the append that needs a
\* slot the array does not have raises OutOfMemory ("iovec") from
\* obuf_init_pos.  After that failure the buffer is well formed (size is
\* the sum of the used lengths, no used length exceeds its capacity, the
\* current slot is at most IOBUF_IOV_MAX - 1, the bytes are those appended
\* so far), and obuf_reset followed by an append succeeds.
C4_SegmentCap ==
    /\ halted # "ub"
    /\ last.path # "assert pos < IOBUF_IOV_MAX"
    /\ (last.status = "oom" /\ last.path = "iovec") =>
          LET b == iobufs[1].out
              r == obuf_reset(b)
          IN /\ ObufValid(b)
             /\ b.pos <= IOBUF_IOV_MAX - 1
             /\ obuf_bytes(b) = stream[1]
             /\ ObufValid(r) /\ obuf_size(r) = 0 /\ obuf_iovcnt(r) = 0
             /\ \A d \in [1..1 -> Byte] :
                   LET a == obuf_dup(r, d, NDEBUG, TRUE)
                   IN /\ a.status = "ok"
                      /\ ObufValid(a.out)
                      /\ obuf_bytes(a.out) = d

\* C4 case: an obuf_dup ran out of slots after it had filled the rest of
\* the current segment with the head of its data.
C4_DupHitTheCap ==
    /\ last.op = "obuf_dup" /\ last.status = "oom" /\ last.path = "iovec"
    /\ iobufs[1].out.pos = IOBUF_IOV_MAX - 1
    /\ obuf_size(iobufs[1].out) > 0

\* C5: iobuf_is_idle is true of a unit exactly when its input holds no
\* unconsumed byte, its output holds no byte and nobody pins it; right
\* after iobuf_pin the unit is not idle, whatever its buffers hold; right
\* after the iobuf_unpin that brings pins to 0 on a unit with empty
\* buffers the unit is idle.
C5_IdleIffEmptyAndUnpinned ==
    \A u \in DOMAIN iobufs :
        LET io == iobufs[u]
            empty == /\ ibuf_bytes(io.in, slabs) = <<>>
                     /\ obuf_bytes(io.out) = <<>>
        IN /\ iobuf_is_idle(io) <=> (empty /\ io.pins = 0)
           /\ (last.op = "iobuf_pin" /\ last.unit = u) => ~iobuf_is_idle(io)
           /\ (last.op = "iobuf_unpin" /\ last.unit = u /\ io.pins = 0
                  /\ empty) => iobuf_is_idle(io)

\* C5 case: the last pin of a unit with allocated, empty buffers was
\* dropped.
C5_UnpinnedToIdle ==
    /\ last.op = "iobuf_unpin"
    /\ iobufs[1].pins = 0
    /\ iobuf_is_idle(iobufs[1])
    /\ ibuf_capacity(iobufs[1].in) > 0
    /\ region_used(iobufs[1].out.pool) > 0

\* C6: after an ibuf_reserve(n) that returned, ibuf_unused() >= n.
C6_ReserveGivesRoom ==
    (last.op = "ibuf_reserve" /\ last.status = "ok") =>
        ibuf_unused(iobufs[1].in) >= last.n

\* C6 case: ibuf_reserve(n) on a never-allocated buffer, for the largest n.
C6_ReservedFromNothing ==
    /\ last.op = "ibuf_reserve" /\ last.status = "ok"
    /\ last.n = MaxReserve
    /\ last.pre.in = ibuf_create

\* C7: an ibuf_reserve(n) called with ibuf_size() + n <= capacity returns,
\* takes no slab from the slab cache and gives none back, and leaves buf
\* and capacity alone; with ibuf_unused() >= n it changes nothing at all,
\* otherwise it defragments in place.
C7_NoReallocWhenItFits ==
    (last.op = "ibuf_reserve"
        /\ ibuf_size(last.pre.in) + last.n <= ibuf_capacity(last.pre.in)) =>
        LET ib == iobufs[1].in
            old == last.pre.in
        IN /\ last.status = "ok"
           /\ ib.buf = old.buf /\ ib.capacity = old.capacity
           /\ DOMAIN slabs = DOMAIN last.pre.slabs
           /\ \A c \in DOMAIN slabs :
                 slabs[c].capacity = last.pre.slabs[c].capacity
           /\ IF ibuf_unused(old) >= last.n
              THEN last.path = "noop" /\ ib = old /\ slabs = last.pre.slabs
              ELSE last.path = "defrag"

\* C7 case: the request fitted exactly after defragmentation.
C7_DefragmentedExactFit ==
    /\ last.op = "ibuf_reserve" /\ last.path = "defrag"
    /\ last.n >= 1
    /\ ibuf_size(last.pre.in) + last.n = ibuf_capacity(last.pre.in)

\* C8: an ibuf_reserve(n) that returned left ibuf_size() and the bytes of
\* [pos, end) as they were, and unless it was a no-op, pos == buf.
C8_ReserveKeepsInput ==
    (last.op = "ibuf_reserve" /\ last.status = "ok") =>
        LET ib == iobufs[1].in
        IN /\ ibuf_size(ib) = ibuf_size(last.pre.in)
           /\ ibuf_bytes(ib, slabs) = ibuf_bytes(last.pre.in, last.pre.slabs)
           /\ last.path # "noop" => ib.pos = ib.buf
           /\ last.path = "noop" => ib.pos = last.pre.in.pos

\* C8 case: a defragmentation moved two different bytes over an
\* overlapping range.
C8_DefragmentOverlap ==
    /\ last.op = "ibuf_reserve" /\ last.path = "defrag"
    /\ ibuf_size(iobufs[1].in) >= 2
    /\ ibuf_pos(last.pre.in) < ibuf_size(last.pre.in)
    /\ \E i, k \in 1..ibuf_size(iobufs[1].in) :
          ibuf_bytes(iobufs[1].in, slabs)[i] # ibuf_bytes(iobufs[1].in, slabs)[k]

\* C9: buf <= pos <= end <= buf + capacity in every state of the input
\* buffer.
C9_IbufPointersOrdered ==
    \A u \in DOMAIN iobufs :
        LET ib == iobufs[u].in
        IN ib.buf <= ib.pos /\ ib.pos <= ib.end
              /\ ib.end <= ib.buf + ib.capacity

\* C9 case: ibuf_reserve moved unconsumed input that did not start at buf
\* from one slab to another.
C9_MovedToAnotherSlab ==
    /\ last.op = "ibuf_reserve" /\ last.path = "realloc"
    /\ last.status = "ok"
    /\ last.pre.in.buf # 0
    /\ last.pre.in.pos > last.pre.in.buf
    /\ ibuf_size(iobufs[1].in) > 0

\* C10: an ibuf_reserve that raised OutOfMemory because slab_get returned
\* NULL left buf, pos, end, capacity, the slabs and their bytes as they
\* were; the slab of the buffer is still allocated.
C10_ReserveFailureChangesNothing ==
    (last.op = "ibuf_reserve" /\ last.status = "oom") =>
        LET ib == iobufs[1].in
        IN /\ ib = last.pre.in
           /\ slabs = last.pre.slabs
           /\ ibuf_bytes(ib, slabs) = ibuf_bytes(last.pre.in, last.pre.slabs)
           /\ ib.buf # 0 => slab_from_data(ib.buf) \in DOMAIN slabs

\* C10 case: the failure happened on a buffer holding unconsumed input in
\* a slab.
C10_FailedWithInput ==
    /\ last.op = "ibuf_reserve" /\ last.status = "oom"
    /\ iobufs[1].in.buf # 0
    /\ ibuf_size(iobufs[1].in) > 0

\* C11: ibuf_pos() (pos - buf) after an ibuf_reserve(n) that returned is
\* what it was before the call, whether the call did nothing, defragmented
\* or moved the data into a new slab.
C11_PositionStable ==
    (last.op = "ibuf_reserve" /\ last.status = "ok") =>
        ibuf_pos(iobufs[1].in) = ibuf_pos(last.pre.in)

\* C11 case: ibuf_reserve moved unconsumed input that started past buf
\* into a new slab, and ibuf_pos() went from a positive offset to 0.
C11_PositionLostOnRealloc ==
    /\ last.op = "ibuf_reserve" /\ last.status = "ok"
    /\ last.path = "realloc"
    /\ ibuf_pos(last.pre.in) > 0
    /\ ibuf_size(iobufs[1].in) > 0
    /\ ibuf_pos(iobufs[1].in) = 0
    /\ ibuf_bytes(iobufs[1].in, slabs) = ibuf_bytes(last.pre.in, last.pre.slabs)

\* A unit as a connection that acquires it must find it: no unconsumed
\* input, no output bytes, no used segment, no pin.
IobufClean(io) ==
    /\ ibuf_size(io.in) = 0
    /\ ibuf_bytes(io.in, slabs) = <<>>
    /\ obuf_size(io.out) = 0
    /\ obuf_iovcnt(io.out) = 0
    /\ obuf_bytes(io.out) = <<>>
    /\ io.pins = 0

\* C12: every unit in iobuf_cache and the unit iobuf_new just returned
\* hold no unconsumed input, no output (size 0, iovcnt 0) and no pin,
\* whatever the buffers held when iobuf_delete (called with pins = 0) put
\* the unit into the cache.
C12_CachedUnitsAreClean ==
    \A u \in DOMAIN iobufs :
        (InCache(u) \/ (last.op = "iobuf_new" /\ last.status = "ok"
                           /\ last.unit = u))
            => IobufClean(iobufs[u])

\* C12 case: iobuf_delete put a unit into the cache whose input and output
\* both held bytes.
C12_DeletedWithBytes ==
    /\ last.op = "iobuf_delete" /\ last.status = "ok"
    /\ InCache(1)
    /\ ibuf_size(last.pre.io.in) > 0
    /\ obuf_size(last.pre.io.out) > 0

\* C13: while the second task holds a pin on the unit, the unit is not in
\* iobuf_cache and iobuf_new has not handed it out; the pins field counts
\* the pins held; assert(pins == 0) in iobuf_delete never fails.
C13_PinnedUnitStaysOut ==
    /\ pinned > 0 => /\ ~InCache(1)
                     /\ last.op # "iobuf_new"
                     /\ last.op # "iobuf_delete"
    /\ iobufs # <<>> => iobufs[1].pins = pinned
    /\ last.path # "assert pins == 0"
    /\ halted = ""

\* C13 case: the owner has emptied both buffers of a unit that was in use
\* (the moment it would release it), the second task still holds its pin,
\* and so iobuf_is_idle refuses the release.
C13_KeptWhilePinned ==
    /\ last.op = "iobuf_reset" /\ last.status = "ok"
    /\ pinned > 0
    /\ CheckedOut(1)
    /\ ibuf_size(last.pre.io.in) = 0 /\ obuf_size(last.pre.io.out) > 0
    /\ ibuf_size(iobufs[1].in) = 0 /\ obuf_size(iobufs[1].out) = 0
    /\ ~iobuf_is_idle(iobufs[1])
    /\ ~ENABLED ReleaseWhenIdle(1)

\* What C14 says of the input buffer: below the ceiling the chunk and the
\* capacity are kept and pos = end = buf; otherwise the chunk is released
\* and the buffer is the empty one with capacity 0.
C14_InputOutcome(pre, io, ceiling) ==
    IF ibuf_capacity(pre.in) < ceiling
    THEN /\ io.in.buf = pre.in.buf
         /\ ibuf_capacity(io.in) = ibuf_capacity(pre.in)
         /\ io.in.pos = io.in.buf /\ io.in.end = io.in.buf
         /\ slabs = last.pre.slabs
    ELSE /\ io.in.buf = 0 /\ ibuf_capacity(io.in) = 0 /\ ibuf_size(io.in) = 0
         /\ pre.in.buf # 0 => slab_from_data(pre.in.buf) \notin DOMAIN slabs

\* What C14 says of the output buffer, with the used lengths of the slots
\* in among required to be 0.
C14_OutputOutcome(pre, io, ceiling, among) ==
    IF region_used(pre.out.pool) < ceiling
    THEN /\ io.out.capacity = pre.out.capacity
         /\ io.out.pool = pre.out.pool
         /\ \A i \in Slots : io.out.iov[i].iov_base = pre.out.iov[i].iov_base
         /\ \A i \in among : io.out.iov[i].iov_len = 0
         /\ io.out.pos = 0 /\ obuf_size(io.out) = 0
    ELSE /\ region_used(io.out.pool) = 0
         /\ io.out.capacity[0] = 0 /\ io.out.iov[0].iov_base = 0
         /\ io.out.iov[0].iov_len = 0
         /\ io.out.pos = 0 /\ obuf_size(io.out) = 0

\* C14: after iobuf_delete of a unit with pins = 0, the input buffer keeps
\* its chunk and capacity with pos = end = buf when its capacity was below
\* 18 x readahead, and else has released the chunk and has capacity 0; the
\* output buffer keeps its capacities with every used length 0 when the
\* region's used bytes were below 18 x readahead, and else sits on the
\* freed region with segment 0 unallocated; the unit is the head of
\* iobuf_cache.
C14_DeleteOutcome ==
    (last.op = "iobuf_delete" /\ last.status = "ok"
        /\ last.pre.io.pins = 0) =>
        /\ C14_InputOutcome(last.pre.io, iobufs[last.unit],
                            POOL_SIZE_FACTOR * iobuf_readahead)
        /\ C14_OutputOutcome(last.pre.io, iobufs[last.unit],
                             POOL_SIZE_FACTOR * iobuf_readahead, Slots)
        /\ iobuf_cache # <<>> /\ Head(iobuf_cache) = last.unit
        /\ Tail(iobuf_cache) = last.pre.cache

\* C14 case: iobuf_delete kept the region, and a slot past the current
\* one still has the used length an earlier life of the unit gave it (the
\* unit went through region_free and obuf_create in between, which
\* initialised slot 0 only).
C14_KeptSlotWithLength ==
    /\ last.op = "iobuf_delete" /\ last.status = "ok"
    /\ last.pre.io.pins = 0
    /\ region_used(last.pre.io.out.pool) < POOL_SIZE_FACTOR * iobuf_readahead
    /\ \E i \in Slots : /\ iobufs[last.unit].out.iov[i].iov_len > 0
                        /\ iobufs[last.unit].out.iov[i].iov_len \notin JunkValues

\* The rest of C14 holds: the same outcome, the used lengths being 0 in
\* the slots the buffer counted (0..obuf_iovcnt()-1 before the call).
C14_DeleteOutcomeOfCountedSlots ==
    (last.op = "iobuf_delete" /\ last.status = "ok"
        /\ last.pre.io.pins = 0) =>
        /\ C14_InputOutcome(last.pre.io, iobufs[last.unit],
                            POOL_SIZE_FACTOR * iobuf_readahead)
        /\ C14_OutputOutcome(last.pre.io, iobufs[last.unit],
                             POOL_SIZE_FACTOR * iobuf_readahead,
                             0..(obuf_iovcnt(last.pre.io.out) - 1))
        /\ iobuf_cache # <<>> /\ Head(iobuf_cache) = last.unit
        /\ Tail(iobuf_cache) = last.pre.cache

\* C15: an iobuf_new that returned took the head of iobuf_cache when the
\* cache was not empty and constructed a unit only when it was empty; the
\* number of units constructed is the largest number of units callers held
\* at the same time; no unit is held by two callers, and a unit is either
\* held or in the cache, once.
C15_AcquireFromCacheFirst ==
    /\ (last.op = "iobuf_new" /\ last.status = "ok") =>
          IF last.pre.cache # <<>>
          THEN /\ last.path = "cached"
               /\ last.unit = Head(last.pre.cache)
               /\ iobuf_cache = Tail(last.pre.cache)
               /\ Len(iobufs) = last.pre.units
          ELSE /\ last.path = "construct"
               /\ last.unit = last.pre.units + 1
               /\ Len(iobufs) = last.pre.units + 1
               /\ iobuf_cache = <<>>
    /\ Len(iobufs) = peak
    /\ \A i, k \in 1..Len(held) : held[i] = held[k] => i = k
    /\ \A i, k \in 1..Len(iobuf_cache) : iobuf_cache[i] = iobuf_cache[k] => i = k
    /\ \A u \in DOMAIN iobufs : InCache(u) # (\E i \in 1..Len(held) : held[i] = u)

\* C15 case: every unit of the pool was held at once, two were released,
\* and an iobuf_new took the head of the cache (the unit released last)
\* and left the other one there.
C15_ReusedTheLastReleased ==
    /\ last.op = "iobuf_new" /\ last.status = "ok" /\ last.path = "cached"
    /\ peak = MaxUnits
    /\ Len(last.pre.cache) = 2
    /\ Len(held) = 2
    /\ last.unit # Len(iobufs)

\* C16: iobuf_reset leaves the unit checked out, iobuf_cache and pins as
\* they were, and the output buffer empty (obuf_size() 0, pos 0); the
\* input buffer has pos = end = buf when ibuf_size() was 0, and otherwise
\* its pos, end, capacity, buf and unconsumed bytes are what they were.
C16_ResetOutcome ==
    (last.op = "iobuf_reset" /\ last.status = "ok") =>
        LET pre == last.pre.io
            io == iobufs[last.unit]
        IN /\ CheckedOut(last.unit)
           /\ iobuf_cache = last.pre.cache
           /\ io.pins = pre.pins
           /\ obuf_size(io.out) = 0 /\ io.out.pos = 0
           /\ obuf_iovcnt(io.out) = 0
           /\ slabs = last.pre.slabs
           /\ io.in.buf = pre.in.buf
           /\ ibuf_capacity(io.in) = ibuf_capacity(pre.in)
           /\ IF ibuf_size(pre.in) = 0
              THEN io.in.pos = io.in.buf /\ io.in.end = io.in.buf
              ELSE /\ io.in.pos = pre.in.pos /\ io.in.end = pre.in.end
                   /\ ibuf_bytes(io.in, slabs)
                         = ibuf_bytes(pre.in, last.pre.slabs)

\* C16 case: iobuf_reset on a pinned unit with unconsumed input past the
\* start of the chunk and output in two segments.
C16_ResetWithInputLeft ==
    /\ last.op = "iobuf_reset" /\ last.status = "ok"
    /\ last.pre.io.pins > 0
    /\ ibuf_size(last.pre.io.in) > 0
    /\ ibuf_pos(last.pre.io.in) > 0
    /\ obuf_iovcnt(last.pre.io.out) = 2

\* C16 case: iobuf_reset with the input consumed to the end, away from
\* the start of the chunk.
C16_ResetWithInputDrained ==
    /\ last.op = "iobuf_reset" /\ last.status = "ok"
    /\ ibuf_size(last.pre.io.in) = 0
    /\ ibuf_pos(last.pre.io.in) > 0
    /\ ibuf_pos(iobufs[last.unit].in) = 0

\* C17: when obuf_reserve(n) has returned, the current segment has n free
\* bytes after its used length (capacity[pos] - iov_len >= n), inside the
\* region, and the pointer returned is iov_base + iov_len of the current
\* segment; on the fast path and on every branch of obuf_reserve_slow.
C17_ReserveGivesContiguousRoom ==
    (last.op = "obuf_reserve" /\ last.status = "ok") =>
        LET b == iobufs[1].out
        IN /\ last.path \in {"fast", "next", "alloc", "realloc"}
           /\ b.capacity[b.pos] - b.iov[b.pos].iov_len >= last.n
           /\ reserved.n = last.n
           /\ reserved.ptr = b.iov[b.pos].iov_base + b.iov[b.pos].iov_len
           /\ RegionValid(b.pool, reserved.ptr, last.n)

\* C17 case: obuf_reserve_slow found the current segment empty with
\* storage too small for n and returned with new storage for it.
C17_ReservedByRealloc ==
    /\ last.op = "obuf_reserve" /\ last.status = "ok"
    /\ last.path = "realloc"
    /\ last.pre.out.capacity[iobufs[1].out.pos] > 0
    /\ last.pre.out.capacity[iobufs[1].out.pos] < last.n

\* C17 cases: the other branches.
C17_ReservedOnFastPath ==
    /\ last.op = "obuf_reserve" /\ last.status = "ok" /\ last.path = "fast"
    /\ last.n > 0 /\ iobufs[1].out.iov[iobufs[1].out.pos].iov_len > 0

C17_ReservedInNextSegment ==
    /\ last.op = "obuf_reserve" /\ last.status = "ok" /\ last.path = "next"
    /\ last.n > 0

C17_ReservedByAlloc ==
    /\ last.op = "obuf_reserve" /\ last.status = "ok" /\ last.path = "alloc"
    /\ iobufs[1].out.pos = last.pre.out.pos + 1

\* C18: obuf_reserve(n), returning or failing for lack of memory, leaves
\* obuf_size(), obuf_iovcnt() and every appended byte as they were; on the
\* fast path the buffer is what it was in every field; on the slow path
\* pos stays or moves one slot on, and moves only past a segment with
\* bytes, every slot before the current one is untouched, no used length
\* up to the current slot changes, and storage changes only for the
\* current slot, which is empty.
C18_ReserveFrame ==
    (last.op = "obuf_reserve" /\ last.status \in {"ok", "oom"}) =>
        LET pre == last.pre.out
            b == iobufs[1].out
        IN /\ obuf_size(b) = obuf_size(pre)
           /\ obuf_iovcnt(b) = obuf_iovcnt(pre)
           /\ obuf_bytes(b) = obuf_bytes(pre)
           /\ ObufKept(pre, b)
           /\ b.alloc_factor = pre.alloc_factor
           /\ last.path = "fast" => b = pre
           /\ pre.iov[pre.pos].iov_len + last.n <= pre.capacity[pre.pos]
                 => b = pre
           /\ b.pos \in {pre.pos, pre.pos + 1}
           /\ b.pos = pre.pos + 1 => pre.iov[pre.pos].iov_len > 0
           /\ \A i \in 0..(b.pos - 1) :
                 b.iov[i] = pre.iov[i] /\ b.capacity[i] = pre.capacity[i]
           /\ b.iov[b.pos].iov_len = pre.iov[b.pos].iov_len
           /\ (b.iov[b.pos].iov_base # pre.iov[b.pos].iov_base
                  \/ b.capacity[b.pos] # pre.capacity[b.pos]
                  \/ b.pool # pre.pool)
                 => /\ b.iov[b.pos].iov_len = 0
                    /\ pre.capacity[b.pos] < last.n
                    /\ region_used(b.pool) > region_used(pre.pool)

\* C18 case: obuf_reserve moved past a segment with bytes and allocated
\* storage for the next one.
C18_MovedAndAllocated ==
    /\ last.op = "obuf_reserve" /\ last.status = "ok"
    /\ last.path = "alloc"
    /\ obuf_size(last.pre.out) > 0
    /\ iobufs[1].out.pos = last.pre.out.pos + 1
    /\ region_used(iobufs[1].out.pool) > region_used(last.pre.out.pool)

\* C18 case: obuf_reserve moved to the next slot and failed there for lack
\* of memory.
C18_MovedThenOutOfMemory ==
    /\ last.op = "obuf_reserve" /\ last.status = "oom"
    /\ iobufs[1].out.pos = last.pre.out.pos + 1

\* The number of slots of b with a used length that is not 0.
NonEmptySlots(b) == Cardinality({i \in Slots : b.iov[i].iov_len # 0})

\* C19: in every state of a running process obuf_iovcnt() is the number of
\* slots with a used length that is not 0: every slot before pos has
\* iov_len > 0, every slot after pos has iov_len = 0, and obuf_size() is
\* the sum of iov_len over the slots 0..obuf_iovcnt()-1.
C19_CountOfNonEmptySegments ==
    \A u \in DOMAIN iobufs :
        halted = "" =>
            LET b == iobufs[u].out
            IN /\ obuf_iovcnt(b) = NonEmptySlots(b)
               /\ \A i \in Slots : i < b.pos => b.iov[i].iov_len > 0
               /\ \A i \in Slots : i > b.pos => b.iov[i].iov_len = 0
               /\ obuf_size(b) = SumLen(b, obuf_iovcnt(b))

\* C19 case: a unit that went through region_free and obuf_create in
\* iobuf_delete and was acquired again has pos = 0 and no byte, and a slot
\* after pos with the used length of its earlier life.
C19_StaleLengthAfterPos ==
    /\ last.op = "iobuf_new" /\ last.status = "ok" /\ last.path = "cached"
    /\ iobufs[1].out.pos = 0 /\ obuf_size(iobufs[1].out) = 0
    /\ obuf_iovcnt(iobufs[1].out) = 0
    /\ \E i \in Slots : /\ i > 0
                        /\ iobufs[1].out.iov[i].iov_len > 0
                        /\ iobufs[1].out.iov[i].iov_len \notin JunkValues

\* The part of C19 about the slots up to pos holds: every slot before pos
\* has iov_len > 0, obuf_iovcnt() is the number of slots 0..pos with a
\* used length that is not 0, obuf_size() is the sum of their lengths,
\* and the slot after pos, when a slot up to pos has storage, has
\* iov_len = 0.
C19_CountUpToPos ==
    \A u \in DOMAIN iobufs :
        halted = "" =>
            LET b == iobufs[u].out
            IN /\ \A i \in Slots : i < b.pos => b.iov[i].iov_len > 0
               /\ obuf_iovcnt(b)
                     = Cardinality({i \in 0..b.pos : b.iov[i].iov_len # 0})
               /\ obuf_size(b) = SumLen(b, obuf_iovcnt(b))
               /\ (b.pos + 1 \in Slots /\ b.iov[b.pos].iov_len > 0)
                     => b.iov[b.pos + 1].iov_len = 0

\* What C20 says of the buffer b that obuf_reset left of pre, the used
\* lengths of the slots in among required to be 0.
C20_ResetKeepsStorage(pre, b, among) ==
    /\ \A i \in among : b.iov[i].iov_len = 0
    /\ b.pos = 0 /\ obuf_size(b) = 0
    /\ b.capacity = pre.capacity
    /\ \A i \in Slots : b.iov[i].iov_base = pre.iov[i].iov_base
    /\ b.pool = pre.pool

\* What C20 says of the calls seq that built pre, made again on b: each
\* returns with region_alloc never called, the region is as it was, and
\* the buffer has the position, the used lengths and the size of pre.
C20_ReplayAllocatesNothing(pre, b, seq) ==
    LET again == Replay(b, seq, NDEBUG)
    IN /\ again.status = "ok"
       /\ again.out.pool.used = b.pool.used
       /\ again.out.capacity = b.capacity
       /\ again.out.pos = pre.pos
       /\ obuf_size(again.out) = obuf_size(pre)
       /\ \A i \in 0..pre.pos : again.out.iov[i] = pre.iov[i]

\* C20: after the reset of the output buffer every slot has iov_len 0,
\* pos = 0 and obuf_size() = 0, every capacity, every iov_base and the
\* region are what they were; the calls that built the buffer (each of
\* which returned), made again after the reset, allocate nothing from the
\* region.
C20_ResetThenReplay ==
    (last.op = "iobuf_reset" /\ last.status = "ok") =>
        /\ C20_ResetKeepsStorage(last.pre.io.out, iobufs[1].out, Slots)
        /\ AllReturned(last.pre.calls) =>
              C20_ReplayAllocatesNothing(last.pre.io.out, iobufs[1].out,
                                         last.pre.calls)

\* C20 case: the reset of a buffer with bytes in one segment, whose slot
\* past the sentinel was never initialised and keeps its used length.
C20_LengthLeftAfterReset ==
    /\ last.op = "iobuf_reset" /\ last.status = "ok"
    /\ obuf_iovcnt(last.pre.io.out) = 1
    /\ \E i \in Slots : iobufs[1].out.iov[i].iov_len # 0

\* The rest of C20 holds: the same with the used lengths 0 in the slots
\* the buffer counted before the reset (0..obuf_iovcnt()-1).
C20_ResetThenReplayOfCountedSlots ==
    (last.op = "iobuf_reset" /\ last.status = "ok") =>
        /\ C20_ResetKeepsStorage(last.pre.io.out, iobufs[1].out,
                                 0..(obuf_iovcnt(last.pre.io.out) - 1))
        /\ AllReturned(last.pre.calls) =>
              C20_ReplayAllocatesNothing(last.pre.io.out, iobufs[1].out,
                                         last.pre.calls)

\* C20 case for the replay: the buffer was built in two segments by four
\* calls, one of them an obuf_reserve that took new storage.
C20_BuiltInTwoSegments ==
    /\ last.op = "iobuf_reset" /\ last.status = "ok"
    /\ obuf_iovcnt(last.pre.io.out) = 2
    /\ Len(last.pre.calls) = MaxCalls
    /\ AllReturned(last.pre.calls)
    /\ \E i \in 1..MaxCalls : last.pre.calls[i].op = "obuf_reserve"

\* The savepoint of a booking the caller still relies on: obuf_book
\* returned it, with bytes booked, and the buffer was neither reset nor
\* rolled back since.
BookingHeld ==
    /\ svp.unit = 1
    /\ "booked" \in DOMAIN svp
    /\ svp.rolled = "no"
    /\ svp.booked > 0

\* C21: when obuf_book(n) has returned savepoint svp, obuf_size() is n
\* more than before and svp.size is what it was before; and from then on,
\* through later appends, obuf_svp_to_ptr(svp) is the pointer the booked
\* bytes were given, the n bytes lie in one segment (slot svp.pos, from
\* svp.iov_len on, within its used length and the region), start at
\* offset svp.size of the buffer's bytes, and no append has written over
\* them.
C21_BookedBytesStay ==
    (halted \in {"", "oom"} /\ BookingHeld) =>
        LET b == iobufs[1].out
            s == svp.s
        IN /\ (last.op = "obuf_book" /\ last.status = "ok") =>
                  /\ obuf_size(b) = obuf_size(last.pre.out) + svp.booked
                  /\ s.size = obuf_size(last.pre.out)
                  /\ last.n = svp.booked
           /\ obuf_svp_to_ptr(b, s) = svp.ptr
           /\ s.pos <= b.pos
           /\ s.iov_len + svp.booked <= b.iov[s.pos].iov_len
           /\ b.iov[s.pos].iov_len <= b.capacity[s.pos]
           /\ RegionValid(b.pool, svp.ptr, svp.booked)
           /\ SumLen(b, s.pos) + s.iov_len = s.size
           /\ s.size + svp.booked <= obuf_size(b)
           /\ SubSeq(obuf_bytes(b), s.size + 1, s.size + svp.booked)
                 = RegionRead(b.pool, svp.ptr, svp.booked)
           /\ RegionRead(b.pool, svp.ptr, svp.booked) = Zeros(svp.booked)

\* C21 case: bytes were booked behind bytes already appended, and appends
\* after the booking went on into the next segment.
C21_AppendedPastTheBooking ==
    /\ BookingHeld
    /\ halted = ""
    /\ svp.s.size > 0
    /\ iobufs[1].out.pos > svp.s.pos
    /\ obuf_size(iobufs[1].out) > svp.s.size + svp.booked
    /\ last.op = "obuf_dup" /\ last.status = "ok"

\* The buffer was built, since it was created or reset, by obuf_dup of
\* 100 bytes and then obuf_dup of 50 bytes, both returned.
TwoAppends ==
    /\ halted = ""
    /\ calls.seq = <<[op |-> "obuf_dup", n |-> 100],
                     [op |-> "obuf_dup", n |-> 50]>>

\* The bytes of the second append (the last 50 of the stream) that are in
\* slot i: those of its used bytes from stream offset 100 on.
OfSecondIn(b, i) ==
    LET before == SumLen(b, i)
    IN IF before >= 100 THEN b.iov[i].iov_len
       ELSE Max(0, before + b.iov[i].iov_len - 100)

\* C22 as stated: after obuf_dup of 100 and of 50 bytes with alloc_factor
\* 128, 30 bytes of the second append are in segment 0, which is full at
\* 128, and 20 bytes are in segment 1.
C22_SplitAsStated ==
    TwoAppends =>
        LET b == iobufs[1].out
        IN /\ b.iov[0].iov_len = 128
           /\ OfSecondIn(b, 0) = 30
           /\ OfSecondIn(b, 1) = 20

\* C22 amended: after obuf_dup of 100 and of 50 bytes with alloc_factor
\* 128, 28 bytes of the second append are in segment 0, which is full at
\* 128 (its capacity), and 22 bytes are in segment 1; the bytes of segment
\* 0 are the 100 of the first append and the first 28 of the second, the
\* bytes of segment 1 the last 22 of the second.
C22_Split ==
    TwoAppends =>
        LET b == iobufs[1].out
        IN /\ b.capacity[0] = 128
           /\ b.iov[0].iov_len = 128
           /\ OfSecondIn(b, 0) = 28
           /\ OfSecondIn(b, 1) = 22
           /\ b.iov[1].iov_len = 22
           /\ b.pos = 1
           /\ obuf_segment(b, 0) = SubSeq(stream[1], 1, 128)
           /\ obuf_segment(b, 1) = SubSeq(stream[1], 129, 150)
           /\ Len(stream[1]) = 150

\* C22 case: the two appends on the buffer as iobuf_new made it (the
\* region held nothing before), the second with bytes of another value.
C22_SecondAppendSplit ==
    /\ TwoAppends
    /\ last.op = "obuf_dup" /\ last.status = "ok"
    /\ region_used(iobufs[1].out.pool) = 384
    /\ stream[1][100] # stream[1][101]
    /\ iobufs[1].out.pos = 1

\* C23: with alloc_factor 128 on a fresh buffer, after obuf_dup of 100
\* bytes obuf_size() = 100 with the bytes in segment 0 only; after a
\* further obuf_dup of 50 bytes obuf_size() = 150, obuf_iovcnt() = 2 and
\* capacity[1] >= 256; after obuf_rollback_to_svp to a savepoint captured
\* at size 100, obuf_size() = 100 and obuf_iovcnt() = 1.
C23_Totals ==
    LET b == iobufs[1].out
    IN /\ (halted = "" /\ calls.seq = <<[op |-> "obuf_dup", n |-> 100]>>) =>
             /\ obuf_size(b) = 100
             /\ obuf_iovcnt(b) = 1 /\ b.pos = 0
             /\ b.iov[0].iov_len = 100
             /\ obuf_bytes(b) = [i \in 1..100 |-> 1]
       /\ TwoAppends =>
             /\ obuf_size(b) = 150
             /\ obuf_iovcnt(b) = 2
             /\ b.capacity[1] >= 256
       /\ (halted = "" /\ svp.unit = 1 /\ svp.s.size = 100
             /\ calls.seq = <<[op |-> "obuf_dup", n |-> 100],
                              [op |-> "obuf_dup", n |-> 50],
                              [op |-> "obuf_rollback_to_svp", n |-> 0]>>) =>
             /\ obuf_size(b) = 100
             /\ obuf_iovcnt(b) = 1
             /\ obuf_bytes(b) = [i \in 1..100 |-> 1]

\* C23 case: the savepoint was captured after the first append, and the
\* rollback came after the second had reached segment 1.
C23_RolledBackToHundred ==
    /\ halted = "" /\ svp.unit = 1 /\ svp.s.size = 100
    /\ svp.rolled = "back"
    /\ last.op = "obuf_rollback_to_svp"
    /\ calls.seq = <<[op |-> "obuf_dup", n |-> 100],
                     [op |-> "obuf_dup", n |-> 50],
                     [op |-> "obuf_rollback_to_svp", n |-> 0]>>
    /\ iobufs[1].out.capacity[1] = 256

(* ------------------- C24: iobuf_set_readahead ------------------------- *)

\* C24, the frame of the call: iobuf_set_readahead changes no field of any
\* unit (cursors, capacities, used lengths, alloc_factor, pins), no buffer
\* content and not the cache; it assigns iobuf_readahead and nothing else.
C24_FrameOfTheCall ==
    last.op = "iobuf_set_readahead" =>
        /\ iobufs = last.pre.iobufs
        /\ slabs = last.pre.slabs
        /\ iobuf_cache = last.pre.cache
        /\ iobuf_readahead # last.pre.readahead

\* C24: iobuf_set_readahead changes no field of any existing unit and no
\* buffer content, and it affects only the capacity chosen by allocations
\* made after the call: operations that allocate nothing (releasing a unit
\* with iobuf_delete, taking a unit from the cache with iobuf_new) go the
\* way they would have gone with the value before the call.
C24_OnlyLaterAllocations ==
    last.op = "iobuf_set_readahead" =>
        /\ iobufs = last.pre.iobufs
        /\ slabs = last.pre.slabs
        /\ iobuf_cache = last.pre.cache
        /\ \A u \in DOMAIN iobufs :
              CheckedOut(u) /\ iobufs[u].pins = 0 =>
                  iobuf_delete(iobufs[u], slabs, iobuf_readahead,
                               NDEBUG).path
                  = iobuf_delete(iobufs[u], slabs, last.pre.readahead,
                                 NDEBUG).path
        /\ iobuf_cache # <<>> =>
              iobuf_new(iobuf_cache, iobufs, 0, iobuf_readahead,
                        NDEBUG).status
              = iobuf_new(iobuf_cache, iobufs, 0, last.pre.readahead,
                          NDEBUG).status

\* C24 witness: the readahead was changed while a connection holds a
\* pinned unit with unconsumed input and output bytes.
C24_ChangedWhileInUse ==
    /\ last.op = "iobuf_set_readahead"
    /\ CheckedOut(1)
    /\ iobufs[1].pins > 0
    /\ ibuf_size(iobufs[1].in) > 0
    /\ obuf_size(iobufs[1].out) > 0

\* C24: a unit kept in the cache under the old value fails the assertions
\* of iobuf_new under the new one.
C24_CachedUnitOverTheNewCeiling ==
    /\ last.op = "iobuf_set_readahead"
    /\ iobuf_cache # <<>>
    /\ ~NDEBUG
    /\ iobuf_new(iobuf_cache, iobufs, 0, last.pre.readahead,
                 NDEBUG).status = "ok"
    /\ iobuf_new(iobuf_cache, iobufs, 0, iobuf_readahead,
                 NDEBUG).status = "abort"

(* ------------------ C25: size is the sum of the lengths ---------------- *)

Allocated(b) ==
    CHOOSE k \in 0..IOBUF_IOV_MAX :
        /\ \A i \in 0..(k - 1) : b.capacity[i] > 0
        /\ k < IOBUF_IOV_MAX => b.capacity[k] = 0

C27_NewUnitWithinCeiling ==
    last.op = "iobuf_new" =>
        /\ last.status = "ok"
        /\ region_used(iobufs[last.unit].out.pool)
              <= iobuf_max_pool_size(iobuf_readahead)
        /\ ibuf_capacity(iobufs[last.unit].in)
              <= iobuf_max_pool_size(iobuf_readahead)

\* C27 witness: iobuf_new took from the cache a unit that iobuf_delete had
\* kept, and an assertion failed.
C27_CachedUnitFailsAssertion ==
    /\ last.op = "iobuf_new" /\ last.status = "abort"
    /\ last.pre.cache # <<>>
    /\ last.path \in {"assert region_used <= max",
                      "assert ibuf_capacity <= max"}
    /\ halted = "abort"

(* -------------------- C28: when the input is reset --------------------- *)

\* The call that just returned left the input cursors of its unit at buf.
InputCollapsed ==
    LET in == iobufs[last.unit].in
    IN in.pos = in.buf /\ in.end = in.buf

\* C28: the input cursors are collapsed to buf only when the input buffer
\* holds no unconsumed byte: whenever iobuf_reset or the keeping branch of
\* iobuf_delete has reset the input, ibuf_size() was 0 before the call.
C28_InputResetOnlyWhenEmpty ==
    /\ (last.op = "iobuf_reset" /\ last.status = "ok" /\ InputCollapsed)
          => ibuf_size(last.pre.io.in) = 0
    /\ (last.op = "iobuf_delete" /\ last.status = "ok"
           /\ last.path \in {"in reset, out reset", "in reset, out free"})
          => ibuf_size(last.pre.io.in) = 0

\* C28, iobuf_reset alone: it resets the input only when it is empty, and
\* otherwise leaves the cursors and the bytes as they are.
C28_IobufResetKeepsInput ==
    (last.op = "iobuf_reset" /\ last.status = "ok") =>
        IF ibuf_size(last.pre.io.in) = 0
        THEN InputCollapsed
        ELSE /\ iobufs[last.unit].in = last.pre.io.in
             /\ ibuf_bytes(iobufs[last.unit].in, slabs)
                   = ibuf_bytes(last.pre.io.in, last.pre.slabs)

\* C28 witness: iobuf_delete took the keeping branch for an input buffer
\* with unconsumed bytes, and the cursors are at buf.
C28_DeleteDiscardsInput ==
    /\ last.op = "iobuf_delete" /\ last.status = "ok"
    /\ last.path = "in reset, out reset"
    /\ ibuf_size(last.pre.io.in) > 0
    /\ InputCollapsed
    /\ ibuf_capacity(iobufs[last.unit].in) > 0

(* ------------------ C29: the slots after the segments ------------------ *)

\* C29: in every reachable state of an output buffer, newly created, reused
\* after a reset, or recreated by obuf_create after region_free, every slot
\* after the last allocated segment has used length 0 and capacity 0.
C29_SlotsAfterSegmentsAreZero ==
    \A u \in DOMAIN iobufs :
        LET b == iobufs[u].out
        IN \A i \in Allocated(b)..(IOBUF_IOV_MAX - 1) :
              b.iov[i].iov_len = 0 /\ b.capacity[i] = 0

\* C29, the one slot the code reads: the slot that follows the allocated
\* segments is cleared (no base, used length 0, capacity 0).
C29_FirstSlotAfterSegmentsIsZero ==
    \A u \in DOMAIN iobufs :
        LET b == iobufs[u].out
            k == Allocated(b)
        IN /\ k < IOBUF_IOV_MAX
           /\ b.capacity[k] = 0
           /\ b.iov[k].iov_len = 0
           /\ b.iov[k].iov_base = 0

\* C29 witness: iobuf_delete freed the region and recreated the output
\* buffer with obuf_create, and a slot after slot 0 still has the used
\* length and the capacity of a segment of the unit's earlier life.
C29_StaleSlotAfterRecreate ==
    /\ last.op = "iobuf_delete" /\ last.status = "ok"
    /\ last.path \in {"in reset, out free", "in destroy, out free"}
    /\ Allocated(iobufs[last.unit].out) = 0
    /\ \E i \in 1..(IOBUF_IOV_MAX - 1) :
          /\ iobufs[last.unit].out.iov[i].iov_len > 0
          /\ iobufs[last.unit].out.iov[i].iov_len
                = last.pre.io.out.iov[i].iov_len
          /\ iobufs[last.unit].out.capacity[i] > 0
          /\ iobufs[last.unit].out.capacity[i] \notin JunkValues

(* --------------------- C30: geometric capacities ----------------------- *)

\* C30: in every reachable state of an output buffer, segment 0, once
\* allocated, has capacity >= alloc_factor, and every allocated segment
\* k >= 1 has at least twice the capacity of segment k - 1.
C30_GeometricCapacities ==
    \A u \in DOMAIN iobufs :
        LET b == iobufs[u].out
            k == Allocated(b)
        IN /\ k > 0 => b.capacity[0] >= b.alloc_factor
           /\ \A i \in 1..(k - 1) : b.capacity[i] >= 2 * b.capacity[i - 1]

\* C30 with the assertions compiled in: the reallocation of an empty
\* segment stops on assert(capacity[pos] == 0), and the capacities stay
\* geometric.
C30_GeometricWithAssertions ==
    ~NDEBUG => C30_GeometricCapacities

\* C30 witness: after a reset, obuf_reserve_slow reallocated segment 0 of a
\* buffer whose segment 1 kept its storage; appends then filled segment 0
\* and went on in segment 1, which has less than twice its capacity.
C30_NextSegmentTooSmall ==
    LET b == iobufs[1].out
    IN /\ last.status = "ok"
       /\ b.pos = 1 /\ b.iov[0].iov_len > 0 /\ b.iov[1].iov_len > 0
       /\ b.capacity[0] >= b.alloc_factor
       /\ b.capacity[1] < 2 * b.capacity[0]

(* ------------------ C31: reallocating an empty segment ----------------- *)

\* The slot obuf_reserve_slow works on when called in state b: the current
\* one when it is empty, the next one otherwise.
SlowTarget(b) ==
    IF b.iov[b.pos].iov_len > 0 THEN b.pos + 1 ELSE b.pos

\* obuf_reserve(n) in state b goes to obuf_reserve_slow and reaches an empty
\* segment with storage for fewer than n bytes.
ReachesSmallSegment(b, n) ==
    /\ b.iov[b.pos].iov_len + n > b.capacity[b.pos]
    /\ SlowTarget(b) < IOBUF_IOV_MAX
    /\ b.iov[SlowTarget(b)].iov_len = 0
    /\ b.capacity[SlowTarget(b)] > 0
    /\ b.capacity[SlowTarget(b)] < n

\* What C31 promises of the call that just ended: it returned, the segment
\* has capacity >= n, and the pointer addresses n bytes of the region.
ReallocReturned ==
    LET b == iobufs[last.unit].out
        t == SlowTarget(last.pre.out)
    IN \/ last.status = "oom" /\ last.path = "region"
       \/ /\ last.status = "ok"
          /\ b.pos = t
          /\ b.capacity[t] >= last.n
          /\ reserved.ptr = b.iov[t].iov_base
          /\ reserved.ptr # 0
          /\ RegionValid(b.pool, reserved.ptr, last.n)
          /\ obuf_size(b) = obuf_size(last.pre.out)

\* C31: obuf_reserve_slow(n) that reaches an empty segment of capacity c,
\* 0 < c < n, reallocates the segment to a capacity >= n and returns a
\* pointer to n writable bytes, with no assertion failing (the region
\* refusing memory aside).
C31_ReallocReturns ==
    (last.op = "obuf_reserve" /\ ReachesSmallSegment(last.pre.out, last.n))
        => ReallocReturned

\* C31 in a build without assertions: the reallocation is carried out.
C31_ReallocWithoutAssertions ==
    (NDEBUG /\ last.op = "obuf_reserve"
        /\ ReachesSmallSegment(last.pre.out, last.n))
        => ReallocReturned

\* C31 witness: after a reset that kept the storage, obuf_reserve(n) reached
\* the empty segment 0 with 0 < capacity < n and stopped on the assertion
\* at the head of obuf_alloc_pos.
C31_ReallocFailsAssertion ==
    /\ last.op = "obuf_reserve"
    /\ ReachesSmallSegment(last.pre.out, last.n)
    /\ last.status = "abort" /\ last.path = "assert capacity[pos] == 0"
    /\ halted = "abort"
    /\ iobufs[1].out = last.pre.out

(* ------------------ C32: the assertion of obuf_alloc ------------------- *)

\* The call that just ended stopped on the assertion at the end of
\* obuf_alloc; obuf_book, which reports the path of its reservation, stops
\* nowhere else once the reservation has returned.
StoppedInAlloc ==
    \/ last.op = "obuf_alloc" /\ last.path = "assert iov_len < capacity"
    \/ /\ last.op = "obuf_book" /\ last.status = "abort"
       /\ last.path \in {"fast", "next", "alloc", "realloc"}

\* C32: after every obuf_alloc(n) and obuf_book(n) the assertion at the end
\* of obuf_alloc holds: the call does not stop on it, and the used length of
\* the current segment is strictly less than its capacity.
C32_AllocLeavesRoom ==
    (last.op \in {"obuf_alloc", "obuf_book"}) =>
        /\ ~StoppedInAlloc
        /\ last.status = "ok" =>
              LET b == iobufs[last.unit].out
              IN b.iov[b.pos].iov_len < b.capacity[b.pos]

\* C32 with <= in place of <: what obuf_reserve_slow guarantees.
C32_AllocWithinCapacity ==
    (last.op \in {"obuf_alloc", "obuf_book"}
        /\ (last.status = "ok" \/ StoppedInAlloc)) =>
        LET b == iobufs[last.unit].out
        IN b.iov[b.pos].iov_len <= b.capacity[b.pos]

\* C32 witness: obuf_book(n) with n the capacity of the segment it had
\* just allocated filled the segment and stopped on the assertion.
C32_BookFillsNewSegment ==
    /\ last.op = "obuf_book" /\ StoppedInAlloc
    /\ last.n > 0
    /\ LET b == iobufs[1].out
       IN /\ last.pre.out.capacity[b.pos] = 0
          /\ b.capacity[b.pos] = last.n
          /\ b.iov[b.pos].iov_len = last.n

\* C32 case: obuf_alloc(n) took all that was left of a segment that
\* already held bytes.
C32_AllocFillsTheRest ==
    /\ last.op = "obuf_alloc" /\ StoppedInAlloc
    /\ last.pre.kind = "obuf"
    /\ LET b == iobufs[1].out
       IN /\ last.pre.out.pos = b.pos
          /\ last.pre.out.iov[b.pos].iov_len > 0
          /\ b.iov[b.pos].iov_len = b.capacity[b.pos]

\* C32 case: n = 0 on a buffer that never allocated: 0 < 0 fails.
C32_ZeroOnNewBuffer ==
    /\ last.op = "obuf_book" /\ last.n = 0 /\ StoppedInAlloc
    /\ iobufs[1].out.capacity[0] = 0
    /\ iobufs[1].out.pos = 0

(* -------------------- C33: obuf_rollback_to_svp ------------------------ *)

\* obuf_iovcnt() of the buffer a savepoint was captured in.
SvpIovcnt(s) == IF s.iov_len > 0 THEN s.pos + 1 ELSE s.pos

RequestedCapacity(ib, n, readahead) ==
    DoubleUntil(Max(ib.capacity * 2, readahead), ibuf_size(ib) + n)

\* C34: when ibuf_reserve(n) reallocates, the capacity it asks for is
\* max(2 x old capacity, readahead) doubled until it is >= size() + n; the
\* new capacity is at least that, hence >= size() + n and >= 2 x the old
\* capacity; and no ibuf_reserve, whatever its path or outcome, lowers the
\* capacity.
C34_ReallocGrowth ==
    (last.op = "ibuf_reserve") =>
        LET old == last.pre.in
            new == iobufs[last.unit].in
            asked == RequestedCapacity(old, last.n, iobuf_readahead)
        IN /\ ibuf_capacity(new) >= ibuf_capacity(old)
           /\ (last.path = "realloc") =>
                 ibuf_size(old) + last.n > ibuf_capacity(old)
           /\ (last.path = "realloc" /\ last.status = "ok") =>
                 /\ asked >= ibuf_size(old) + last.n
                 /\ asked >= 2 * ibuf_capacity(old)
                 /\ asked >= iobuf_readahead
                 /\ ibuf_capacity(new) >= asked
                 /\ ibuf_capacity(new) >= ibuf_size(old) + last.n
                 /\ ibuf_capacity(new) >= 2 * ibuf_capacity(old)
                 /\ ibuf_size(new) = ibuf_size(old)

\* C34 witness: a buffer with storage and unconsumed bytes was reallocated
\* with a readahead smaller than twice its capacity.
C34_DoubledWithInput ==
    /\ last.op = "ibuf_reserve" /\ last.status = "ok"
    /\ last.path = "realloc"
    /\ ibuf_capacity(last.pre.in) > 0
    /\ ibuf_size(last.pre.in) > 0
    /\ iobuf_readahead < 2 * ibuf_capacity(last.pre.in)
    /\ ibuf_capacity(iobufs[1].in) >= 2 * ibuf_capacity(last.pre.in)

(* --------------- C35: no segment outlives a bulk free ------------------ *)

\* The storage of slot i in state b is storage the buffer had in state pb,
\* among its allocated segments, or was handed out by region_alloc after pb.
StorageAccountedFor(pb, b, i) ==
    \/ /\ i < Allocated(pb)
       /\ b.iov[i].iov_base = pb.iov[i].iov_base
       /\ b.capacity[i] = pb.capacity[i]
    \/ /\ b.iov[i].iov_base > pb.pool.used
       /\ RegionValid(b.pool, b.iov[i].iov_base, b.capacity[i])

\* The segments in use lie in the region as it is now, and no two overlap.
SegmentsInRegion(b) ==
    /\ \A i \in 0..b.pos :
          b.capacity[i] > 0 =>
              /\ i < Allocated(b)
              /\ RegionValid(b.pool, b.iov[i].iov_base, b.capacity[i])
    /\ \A i, k \in 0..(Allocated(b) - 1) :
          i < k => \/ b.iov[i].iov_base + b.capacity[i] <= b.iov[k].iov_base
                   \/ b.iov[k].iov_base + b.capacity[k] <= b.iov[i].iov_base

\* C35: after iobuf_delete freed the region and recreated the output
\* buffer, no slot counts as allocated; from then on every segment with
\* index <= pos and non-zero capacity has storage that the buffer already
\* had among its allocated segments before the call or that region_alloc
\* handed out during the call, so that it was allocated after the last
\* bulk free; the pointer obuf_reserve returns and the bytes obuf_dup and
\* the caller of obuf_alloc write are in such storage, and no call writes
\* outside the region.
C35_NoSegmentOutlivesBulkFree ==
    /\ (last.op = "iobuf_delete" /\ last.status = "ok"
           /\ last.path \in {"in reset, out free", "in destroy, out free"}) =>
          LET b == iobufs[last.unit].out
          IN /\ Allocated(b) = 0 /\ b.pos = 0 /\ obuf_size(b) = 0
             /\ region_used(b.pool) = 0
    /\ (last.op \in {"obuf_dup", "obuf_reserve", "obuf_alloc"}
           /\ last.pre.kind = "obuf") =>
          LET b == iobufs[last.unit].out
          IN \A i \in 0..b.pos :
                b.capacity[i] > 0 => StorageAccountedFor(last.pre.out, b, i)
    /\ \A u \in DOMAIN iobufs : SegmentsInRegion(iobufs[u].out)
    /\ (reserved.unit = 1 /\ halted = "") =>
          LET b == iobufs[1].out
          IN /\ reserved.ptr = b.iov[b.pos].iov_base + b.iov[b.pos].iov_len
             /\ RegionValid(b.pool, reserved.ptr, reserved.n)
    /\ last.status # "ub"
    /\ halted = "" => obuf_bytes(iobufs[1].out) = stream[1]

\* C35 witness: the unit was released over the ceiling and taken again;
\* slot 1 still held the base and the capacity of a segment of the freed
\* region when obuf_dup was called, and the bytes went to storage that
\* region_alloc handed out in that call.
C35_AppendAfterBulkFree ==
    /\ last.op = "obuf_dup" /\ last.status = "ok"
    /\ last.pre.kind = "obuf"
    /\ Allocated(last.pre.out) = 0
    /\ region_used(last.pre.out.pool) = 0
    /\ last.pre.out.capacity[1] >= LargeChunk
    /\ last.pre.out.iov[1].iov_base > 0
    /\ LET b == iobufs[1].out
       IN /\ b.capacity[0] > 0 /\ b.iov[0].iov_base = 1
          /\ b.capacity[1] = 0 /\ b.iov[1].iov_base = 0
          /\ obuf_size(b) > 0

(* ------------------ C36: obuf_dup fills before it advances ------------- *)

\* C36: obuf_dup never moves pos backwards; when it moved pos from i to
\* j > i, whether it returned or raised, every segment k with i <= k < j
\* is allocated and full; when it returned, the segments before i are as
\* they were, size grew by the length of data, and the used parts of the
\* segments 0..j read in order are the used parts of the segments 0..i
\* before the call followed by the bytes of data, in order and without a
\* gap.
C36_FillsBeforeAdvancing ==
    (last.op = "obuf_dup" /\ last.pre.kind = "obuf"
        /\ last.status \in {"ok", "oom"}) =>
       LET pb == last.pre.out
           b == iobufs[last.unit].out
           i == pb.pos
           j == b.pos
       IN /\ j >= i
          /\ \A k \in i..(j - 1) :
                b.capacity[k] > 0 /\ b.iov[k].iov_len = b.capacity[k]
          /\ last.status = "ok" =>
                /\ \A k \in 0..(i - 1) :
                      b.iov[k] = pb.iov[k] /\ b.capacity[k] = pb.capacity[k]
                /\ b.size = pb.size + Len(last.pre.data)
                /\ obuf_concat(b, j + 1)
                       = obuf_concat(pb, i + 1) \o last.pre.data

\* C36 witness: obuf_dup found the current segment partly used, copied the
\* first bytes of data into its free part and the rest into the next
\* segment.
C36_SplitOverTwoSegments ==
    /\ last.op = "obuf_dup" /\ last.status = "ok"
    /\ last.pre.kind = "obuf"
    /\ LET pb == last.pre.out
           b == iobufs[1].out
       IN /\ b.pos = pb.pos + 1
          /\ pb.iov[pb.pos].iov_len > 0
          /\ pb.iov[pb.pos].iov_len < pb.capacity[pb.pos]
          /\ b.iov[pb.pos].iov_len = b.capacity[pb.pos]
          /\ b.iov[b.pos].iov_len > 0
          /\ Len(last.pre.data) =
                 pb.capacity[pb.pos] - pb.iov[pb.pos].iov_len
                     + b.iov[b.pos].iov_len

(* ------------------ C37: the last slot is never allocated -------------- *)

\* The bytes obuf_dup can still put into the slots k..IOBUF_IOV_MAX - 2 of
\* b without a new segment.
RECURSIVE FreeFrom(_, _)
FreeFrom(b, k) ==
    IF k > IOBUF_IOV_MAX - 2 THEN 0
    ELSE b.capacity[k] - b.iov[k].iov_len + FreeFrom(b, k + 1)

\* C37: in every reachable state at most IOBUF_IOV_MAX - 1 slots have
\* storage and obuf_iovcnt() is at most IOBUF_IOV_MAX - 1; when pos is the
\* last slot, that slot is zero; no append gives the last slot storage; an
\* obuf_dup of more bytes than the IOBUF_IOV_MAX - 1 allocated segments
\* have free, and an obuf_reserve that has to leave segment
\* IOBUF_IOV_MAX - 2, raise out-of-memory from obuf_init_pos; and
\* obuf_init_pos raises in no other case.
C37_LastSlotNeverAllocated ==
    /\ \A u \in DOMAIN iobufs :
          LET b == iobufs[u].out
          IN /\ Allocated(b) <= IOBUF_IOV_MAX - 1
             /\ obuf_iovcnt(b) <= IOBUF_IOV_MAX - 1
             /\ b.pos = IOBUF_IOV_MAX - 1 =>
                   /\ b.capacity[b.pos] = 0
                   /\ b.iov[b.pos] = [iov_base |-> 0, iov_len |-> 0]
    /\ (last.op \in {"obuf_dup", "obuf_reserve", "obuf_alloc"}
           /\ last.pre.kind = "obuf") =>
          LET pb == last.pre.out
              b == iobufs[last.unit].out
              top == IOBUF_IOV_MAX - 1
          IN /\ b.capacity[top] \in {0, pb.capacity[top]}
             /\ b.iov[top].iov_base \in {0, pb.iov[top].iov_base}
             /\ (last.status = "oom" /\ last.path = "iovec") => b.pos = top
    /\ (last.op = "obuf_dup" /\ last.pre.kind = "obuf") =>
          LET pb == last.pre.out
          IN (last.status = "oom" /\ last.path = "iovec")
                 <=> /\ Allocated(pb) = IOBUF_IOV_MAX - 1
                     /\ Len(last.pre.data) > FreeFrom(pb, pb.pos)
    /\ (last.op = "obuf_reserve" /\ last.pre.kind = "obuf") =>
          LET pb == last.pre.out
              len == pb.iov[pb.pos].iov_len
          IN (last.status = "oom" /\ last.path = "iovec")
                 <=> /\ len + last.n > pb.capacity[pb.pos]
                     /\ \/ pb.pos = IOBUF_IOV_MAX - 1
                        \/ pb.pos = IOBUF_IOV_MAX - 2 /\ len > 0

\* C37 witness: IOBUF_IOV_MAX - 1 segments were allocated and obuf_dup had
\* more bytes than they had free; it filled them, raised on the slot
\* IOBUF_IOV_MAX - 1 and left IOBUF_IOV_MAX - 1 segments holding data.
C37_AppendNeedsTheLastSlot ==
    /\ last.op = "obuf_dup" /\ last.status = "oom" /\ last.path = "iovec"
    /\ last.pre.kind = "obuf"
    /\ Allocated(last.pre.out) = IOBUF_IOV_MAX - 1
    /\ last.pre.out.pos < IOBUF_IOV_MAX - 1
    /\ Len(last.pre.data) = FreeFrom(last.pre.out, last.pre.out.pos) + 1
    /\ iobufs[1].out.pos = IOBUF_IOV_MAX - 1
    /\ obuf_iovcnt(iobufs[1].out) = IOBUF_IOV_MAX - 1
    /\ iobufs[1].out.capacity[IOBUF_IOV_MAX - 1] = 0

(* ------------------ C38: the doubling loops terminate ------------------ *)

\* C38: every call returns, raises or stops on an assertion: no
\* ibuf_reserve, obuf_reserve or obuf_dup stays in its capacity-doubling
\* loop, whatever value iobuf_set_readahead was given.
C38_DoublingLoopsTerminate ==
    last.op \in {"ibuf_reserve", "obuf_reserve", "obuf_dup", "obuf_alloc"} =>
        last.status # "hang"

\* C38, with the allocation factors positive: a call stays in a doubling
\* loop only if the capacity it started from is zero, which is
\* iobuf_readahead = 0 for an input buffer without storage and
\* alloc_factor = 0 for the first segment of an output buffer.
C38_TerminateFromPositiveFactor ==
    last.status = "hang" =>
        \/ /\ last.op = "ibuf_reserve"
           /\ iobuf_readahead = 0
           /\ iobufs[last.unit].in.capacity = 0
           /\ last.n > 0
        \/ /\ last.op \in {"obuf_dup", "obuf_reserve"}
           /\ iobufs[last.unit].out.alloc_factor = 0
           /\ iobufs[last.unit].out.pos = 0
           /\ iobufs[last.unit].out.capacity[0] = 0

\* C38 witness: after iobuf_set_readahead(0) a unit was created with
\* alloc_factor 0, and obuf_dup of at least one byte entered
\* while (capacity < size) capacity *= 2 with capacity 0.
C38_DupDoublesZero ==
    /\ last.op = "obuf_dup" /\ last.status = "hang"
    /\ last.path = "alloc_pos"
    /\ iobufs[last.unit].out.alloc_factor = 0
    /\ iobufs[last.unit].out.capacity[0] = 0
    /\ halted = "hang"

(* ------------------ C39: a failing append is not rolled back ----------- *)

\* C39: when obuf_dup raises on the limit of slots, pos is left on the
\* last slot, size is its value before the call plus the free capacity of
\* the segments from the old pos on, each of which is now full, and the
\* buffer holds the bytes it held followed by that many first bytes of
\* data; when obuf_reserve raises on the limit, size and every used
\* length are as before the call, and pos is on the last slot, one past
\* the segment it was on if it was on a segment.
C39_FailedAppendStays ==
    (last.status = "oom" /\ last.path = "iovec" /\ last.pre.kind = "obuf") =>
       LET pb == last.pre.out
           b == iobufs[last.unit].out
           top == IOBUF_IOV_MAX - 1
           free == FreeFrom(pb, pb.pos)
       IN /\ b.pos = top
          /\ last.op = "obuf_dup" =>
                /\ b.size = pb.size + free
                /\ \A k \in pb.pos..(top - 1) :
                      b.iov[k].iov_len = b.capacity[k]
                /\ obuf_bytes(b)
                       = obuf_bytes(pb) \o SubSeq(last.pre.data, 1, free)
          /\ last.op = "obuf_reserve" =>
                /\ b.size = pb.size
                /\ \A k \in 0..top : b.iov[k].iov_len = pb.iov[k].iov_len
                /\ obuf_bytes(b) = obuf_bytes(pb)
                /\ pb.pos < top => b.pos = pb.pos + 1

\* C39 witness: obuf_dup started on segment 0, filled every allocated
\* segment, raised on the last slot and left the bytes it had copied.
C39_PartOfTheDataStays ==
    /\ last.op = "obuf_dup" /\ last.status = "oom" /\ last.path = "iovec"
    /\ last.pre.kind = "obuf"
    /\ last.pre.out.pos = 0
    /\ last.pre.out.iov[0].iov_len < last.pre.out.capacity[0]
    /\ last.pre.out.iov[1].iov_len = 0
    /\ iobufs[1].out.pos = IOBUF_IOV_MAX - 1
    /\ iobufs[1].out.size > last.pre.out.size + 1
    /\ iobufs[1].out.size < last.pre.out.size + Len(last.pre.data)

\* C39, second case reached: obuf_reserve raised on the limit after it had
\* moved pos off a segment that holds data.
C39_ReserveMovedThenRaised ==
    /\ last.op = "obuf_reserve" /\ last.status = "oom" /\ last.path = "iovec"
    /\ last.pre.kind = "obuf"
    /\ last.pre.out.pos = IOBUF_IOV_MAX - 2
    /\ iobufs[1].out.pos = IOBUF_IOV_MAX - 1
    /\ iobufs[1].out.size = last.pre.out.size
    /\ iobufs[1].out.size > 0

(* ------------------ C40: one chunk per input buffer -------------------- *)

\* The chunks the input buffer ib holds: the one its buf points into.
ChunksOf(ib) == IF ib.buf # 0 THEN {slab_from_data(ib.buf)} ELSE {}

\* Chunks acquired minus chunks released by a call that found the live
\* chunks before and left the live chunks after.
NetAcquired(before, after) ==
    Cardinality(DOMAIN after) - Cardinality(DOMAIN before)

\* What an input buffer must hold: one chunk with storage, none without.
ChunksDue(ib) == IF ib.capacity > 0 THEN 1 ELSE 0

\* C40: in every reachable state each input buffer holds one live chunk if
\* its capacity is positive and none if it is zero, buf points to the start
\* of that chunk and capacity is the chunk's; no two buffers hold the same
\* chunk and every live chunk is held by a buffer (none is leaked); every
\* chunk handed to slab_put is live (none is released twice); and over
\* each ibuf_reserve, iobuf_reset and iobuf_delete the chunks acquired
\* minus the chunks released equal the change of what the buffer must
\* hold.
C40_OneChunkPerInput ==
    /\ \A u \in DOMAIN iobufs :
          LET ib == iobufs[u].in
          IN /\ Cardinality(ChunksOf(ib)) = ChunksDue(ib)
             /\ ChunksOf(ib) \subseteq DOMAIN slabs
             /\ ib.buf # 0 =>
                   /\ ib.buf = slab_data(slab_from_data(ib.buf))
                   /\ ib.capacity = slabs[slab_from_data(ib.buf)].capacity
    /\ \A u, v \in DOMAIN iobufs :
          u # v => ChunksOf(iobufs[u].in) \cap ChunksOf(iobufs[v].in) = {}
    /\ DOMAIN slabs = UNION {ChunksOf(iobufs[u].in) : u \in DOMAIN iobufs}
    /\ (last.op = "ibuf_reserve" /\ last.pre.kind = "ibuf") =>
          NetAcquired(last.pre.slabs, slabs)
              = ChunksDue(iobufs[last.unit].in) - ChunksDue(last.pre.in)
    /\ (last.op \in {"iobuf_delete", "iobuf_reset"}
           /\ last.pre.kind = "iobuf") =>
          /\ NetAcquired(last.pre.slabs, slabs)
                 = ChunksDue(iobufs[last.unit].in) - ChunksDue(last.pre.io.in)
          /\ ChunksOf(last.pre.io.in) \subseteq DOMAIN last.pre.slabs

\* C40 witness: an input buffer that held a chunk was released over the
\* ceiling; ibuf_destroy put the chunk back and ibuf_create left the buffer
\* without storage, and no chunk is live.
C40_ChunkReturnedOnDelete ==
    /\ last.op = "iobuf_delete" /\ last.status = "ok"
    /\ last.pre.kind = "iobuf"
    /\ last.pre.io.in.capacity > 0
    /\ Cardinality(DOMAIN last.pre.slabs) = 1
    /\ iobufs[last.unit].in.capacity = 0
    /\ iobufs[last.unit].in.buf = 0
    /\ DOMAIN slabs = {}

\* C40, growth reached: ibuf_reserve took a larger chunk and put back the
\* chunk the buffer had, and one chunk is live.
C40_ChunkReplacedOnGrowth ==
    /\ last.op = "ibuf_reserve" /\ last.status = "ok" /\ last.path = "realloc"
    /\ last.pre.kind = "ibuf"
    /\ last.pre.in.capacity > 0
    /\ iobufs[last.unit].in.capacity > last.pre.in.capacity
    /\ iobufs[last.unit].in.buf # last.pre.in.buf
    /\ Cardinality(DOMAIN slabs) = 1

====
